---- MODULE Spec2Model ----
(***************************************************************************)
(* A model of the recursive-descent parser of the Move IR                  *)
(* (language/compiler/ir-to-bytecode/syntax/src/syntax.rs).                *)
(*                                                                         *)
(* Every parse function of the source is an operator from a lexer value    *)
(* to a result value [ok, v, err, lx]: the Rust `Result` together with the *)
(* lexer as the call left it (the source threads `&mut Lexer`).  A `?` in  *)
(* the source is an early `IF ~r.ok THEN Fail(r)`.  A Rust panic (unwrap,  *)
(* assert!, panic!) is carried as the error <<"Panic", msg>>: it unwinds   *)
(* through every caller exactly as `?` does, but is not a returned Err.    *)
(*                                                                         *)
(* Values of the AST: an enum variant is a tuple headed by the variant's    *)
(* name, a struct is the pair of its name and the record of its fields, a   *)
(* Spanned<T> is the record [span, value].                                  *)
(*                                                                         *)
(* The state machine has one action per public entry point; an action      *)
(* constructs the lexer over a source text, primes it and runs the         *)
(* production, as the entry point does.                                    *)
(***************************************************************************)
EXTENDS Integers, Sequences, FiniteSets, TLC

VARIABLES
    entry,      \* the entry point that was called ("none" before any call)
    input,      \* the source text it was called on, a sequence of atoms
    outcome     \* what it returned, with the lexer as it was left

vars == <<entry, input, outcome>>

-----------------------------------------------------------------------------
(* Source text.  A text is a sequence of atoms [k, s, g]: the lexeme kind, *)
(* its characters, and the number of blanks in front of it.                *)

TokText(k) ==
    CASE k = "LBrace" -> "{" [] k = "RBrace" -> "}"
      [] k = "LParen" -> "(" [] k = "RParen" -> ")"
      [] k = "Comma" -> "," [] k = "Semicolon" -> ";"
      [] k = "Colon" -> ":" [] k = "Period" -> "."
      [] k = "Underscore" -> "_" [] k = "Equal" -> "="
      [] k = "EqualEqualGreater" -> "==>"
      [] k = "PipePipe" -> "||" [] k = "AmpAmp" -> "&&"
      [] k = "EqualEqual" -> "==" [] k = "ExclaimEqual" -> "!="
      [] k = "Less" -> "<" [] k = "Greater" -> ">"
      [] k = "LessEqual" -> "<=" [] k = "GreaterEqual" -> ">="
      [] k = "Pipe" -> "|" [] k = "Caret" -> "^" [] k = "Amp" -> "&"
      [] k = "LessLess" -> "<<" [] k = "GreaterGreater" -> ">>"
      [] k = "Plus" -> "+" [] k = "Minus" -> "-"
      [] k = "Star" -> "*" [] k = "Slash" -> "/" [] k = "Percent" -> "%"
      [] k = "Exclaim" -> "!" [] k = "AmpMut" -> "&mut"
      [] k = "Move" -> "move(" [] k = "Copy" -> "copy("
      [] k = "Assert" -> "assert(" [] k = "Abort" -> "abort"
      [] k = "Return" -> "return" [] k = "Continue" -> "continue"
      [] k = "Break" -> "break" [] k = "If" -> "if" [] k = "Else" -> "else"
      [] k = "While" -> "while" [] k = "Loop" -> "loop" [] k = "Let" -> "let"
      [] k = "True" -> "true" [] k = "False" -> "false"
      [] k = "Module" -> "module" [] k = "Modules" -> "modules:"
      [] k = "Script" -> "script:" [] k = "Main" -> "main"
      [] k = "Import" -> "import" [] k = "As" -> "as"
      [] k = "Public" -> "public" [] k = "Native" -> "native"
      [] k = "Struct" -> "struct" [] k = "Resource" -> "resource"
      [] k = "Unrestricted" -> "unrestricted" [] k = "Acquires" -> "acquires"
      [] k = "Address" -> "address" [] k = "U8" -> "u8" [] k = "U64" -> "u64"
      [] k = "U128" -> "u128" [] k = "Bool" -> "bool"
      [] k = "Bytearray" -> "bytearray"
      [] k = "Exists" -> "exists<" [] k = "BorrowGlobal" -> "borrow_global<"
      [] k = "BorrowGlobalMut" -> "borrow_global_mut<"
      [] k = "MoveFrom" -> "move_from<" [] k = "MoveToSender" -> "move_to_sender<"
      [] k = "GetTxnSender" -> "get_txn_sender" [] k = "Freeze" -> "freeze"
      [] k = "ToU8" -> "to_u8" [] k = "ToU64" -> "to_u64" [] k = "ToU128" -> "to_u128"
      [] k = "Requires" -> "requires" [] k = "Ensures" -> "ensures"
      [] k = "AbortsIf" -> "aborts_if" [] k = "SucceedsIf" -> "succeeds_if"
      [] k = "Invariant" -> "invariant" [] k = "Synthetic" -> "synthetic"
      [] k = "Old" -> "old" [] k = "Global" -> "global"
      [] k = "GlobalExists" -> "global_exists"
      [] k = "SpecReturn" -> "RET" [] k = "TxnSender" -> "txn_sender"
      [] OTHER -> "?"

\* a punctuation or keyword atom after a blank, and the same with no blank
P(k) == [k |-> k, s |-> TokText(k), g |-> 1]
G(k) == [k |-> k, s |-> TokText(k), g |-> 0]
\* a name, a name glued to what precedes it, a literal of kind k
N(s) == [k |-> "NameValue", s |-> s, g |-> 1]
GN(s) == [k |-> "NameValue", s |-> s, g |-> 0]
V(k, s) == [k |-> k, s |-> s, g |-> 1]
\* a character sequence no token starts with
Junk == [k |-> "Invalid", s |-> "#", g |-> 1]

RECURSIVE AtomStart(_, _)
AtomStart(text, i) ==
    IF i = 1 THEN text[1].g
    ELSE AtomStart(text, i - 1) + Len(text[i - 1].s) + text[i].g

AtomEnd(text, i) == AtomStart(text, i) + Len(text[i].s)

TextLen(text) == IF Len(text) = 0 THEN 0 ELSE AtomEnd(text, Len(text))

\* the first atom with a character at or after byte offset off (0: none)
AtomAfter(text, off) ==
    LET S == {i \in 1..Len(text) : AtomEnd(text, i) > off}
    IN IF S = {} THEN 0 ELSE CHOOSE i \in S : \A j \in S : i <= j

-----------------------------------------------------------------------------
(* Results and errors                                                      *)

Ok(v, lx) == [ok |-> TRUE, v |-> v, err |-> <<>>, lx |-> lx]
Err(e, lx) == [ok |-> FALSE, v |-> <<>>, err |-> e, lx |-> lx]
Fail(r) == Err(r.err, r.lx)

InvalidToken(location) == <<"InvalidToken", location>>
User(error) == <<"User", error>>
Panic(msg) == <<"Panic", msg>>

IsPanic(r) == ~r.ok /\ r.err[1] = "Panic"
\* the call returned to its caller, with Ok or with Err
Returned(r) == r.ok \/ r.err[1] # "Panic"

spanned(start, end, value) == [span |-> <<start, end>>, value |-> value]
no_loc(value) == [span |-> <<0, 0>>, value |-> value]

-----------------------------------------------------------------------------
(* The lexer.  Its source is not part of syntax.rs; it is modelled from    *)
(* the cursor contract: peek, lookahead, content, start_loc,               *)
(* previous_end_loc, advance, replace_token and the spec_mode flag.        *)
(* Outside spec mode a name absorbs a directly following `<`               *)
(* (NameBeginTyValue) or `.name` (DotNameValue).                           *)

Glued(text, i, k) == i <= Len(text) /\ text[i].g = 0 /\ text[i].k = k

find_token(text, off, spec_mode) ==
    LET i == AtomAfter(text, off) IN
    IF i = 0 THEN
        [ok |-> TRUE, tok |-> "EOF", start |-> TextLen(text), len |-> 0, content |-> ""]
    ELSE IF AtomStart(text, i) < off THEN
        \* the rest of a token that replace_token has shortened
        [ok |-> text[i].k = "GreaterGreater",
         tok |-> "Greater", start |-> off, len |-> AtomEnd(text, i) - off,
         content |-> ">"]
    ELSE IF text[i].k = "Invalid" THEN
        [ok |-> FALSE, tok |-> "EOF", start |-> AtomStart(text, i), len |-> 0,
         content |-> ""]
    ELSE IF ~spec_mode /\ text[i].k = "NameValue" /\ Glued(text, i + 1, "Less") THEN
        [ok |-> TRUE, tok |-> "NameBeginTyValue", start |-> AtomStart(text, i),
         len |-> Len(text[i].s) + 1, content |-> text[i].s \o "<"]
    ELSE IF /\ ~spec_mode /\ text[i].k = "NameValue"
            /\ Glued(text, i + 1, "Period") /\ Glued(text, i + 2, "NameValue") THEN
        [ok |-> TRUE, tok |-> "DotNameValue", start |-> AtomStart(text, i),
         len |-> Len(text[i].s) + 1 + Len(text[i + 2].s),
         content |-> text[i].s \o "." \o text[i + 2].s]
    ELSE
        [ok |-> TRUE, tok |-> text[i].k, start |-> AtomStart(text, i),
         len |-> Len(text[i].s), content |-> text[i].s]

LexerNew(text) ==
    [text |-> text, spec_mode |-> FALSE, prev_end |-> 0, cur_start |-> 0,
     cur_end |-> 0, token |-> "EOF", content |-> "", log |-> <<>>]

peek(tokens) == tokens.token
content(tokens) == tokens.content
start_loc(tokens) == tokens.cur_start
previous_end_loc(tokens) == tokens.prev_end

LogEntry(op, tokens) ==
    [op |-> op, spec_mode |-> tokens.spec_mode, tok |-> tokens.token,
     start |-> tokens.cur_start, end |-> tokens.cur_end]

lookahead(tokens) ==
    LET f == find_token(tokens.text, tokens.cur_end, tokens.spec_mode) IN
    IF f.ok /\ f.tok # "EOF" THEN Ok(f.tok, tokens)
    ELSE Err(InvalidToken(f.start), tokens)

advance(tokens) ==
    LET f == find_token(tokens.text, tokens.cur_end, tokens.spec_mode)
        logged == [tokens EXCEPT !.log = Append(@, LogEntry("advance", tokens))]
    IN IF f.ok
       THEN Ok(<<>>, [logged EXCEPT !.prev_end = tokens.cur_end,
                                    !.cur_start = f.start,
                                    !.cur_end = f.start + f.len,
                                    !.token = f.tok,
                                    !.content = f.content])
       ELSE Err(InvalidToken(f.start),
                [logged EXCEPT !.prev_end = tokens.cur_end, !.cur_start = f.start])

replace_token(tokens, tok, len) ==
    Ok(<<>>, [tokens EXCEPT !.token = tok,
                            !.cur_end = tokens.cur_start + len,
                            !.content = SubSeq(tokens.content, 1, len),
                            !.log = Append(@, LogEntry("replace_token", tokens))])

set_spec_mode(tokens, b) == [tokens EXCEPT !.spec_mode = b]

-----------------------------------------------------------------------------
(* Constructors of the AST crate (move_ir_types, libra_types).  They are   *)
(* not part of syntax.rs; the parser only relies on their being fallible.  *)

CharAt(s, i) == SubSeq(s, i, i)

\* Identifier::is_valid, as far as the parser can observe it
IsValidIdentifier(s) == Len(s) > 0 /\ CharAt(s, 1) # "$"

IdentParse(tag, s, tokens) ==
    IF IsValidIdentifier(s) THEN Ok(<<tag, s>>, tokens)
    ELSE Err(User("invalid identifier"), tokens)

Var_parse(s, tokens) == IdentParse("Var_", s, tokens)
Var_new(s) == <<"Var_", s>>
TypeVar_parse(s, tokens) == IdentParse("TypeVar_", s, tokens)
StructName_parse(s, tokens) == IdentParse("StructName", s, tokens)
ModuleName_parse(s, tokens) == IdentParse("ModuleName", s, tokens)
FunctionName_parse(s, tokens) == IdentParse("FunctionName", s, tokens)
parse_field_(s, tokens) == IdentParse("Field_", s, tokens)
Field_name(f) == f[2]

HexDigits == {"0", "1", "2", "3", "4", "5", "6", "7", "8", "9",
              "a", "b", "c", "d", "e", "f", "A", "B", "C", "D", "E", "F"}
IsHex(s) == \A i \in 1..Len(s) : CharAt(s, i) \in HexDigits

RECURSIVE StripZeros(_)
StripZeros(s) ==
    IF Len(s) > 1 /\ CharAt(s, 1) = "0" THEN StripZeros(SubSeq(s, 2, Len(s))) ELSE s

\* AccountAddress::from_hex_literal: "0x" and at most 32 bytes of hex digits
AccountAddress_from_hex_literal(s) ==
    LET digits == SubSeq(s, 3, Len(s)) IN
    IF Len(s) > 2 /\ SubSeq(s, 1, 2) \in {"0x", "0X"} /\ IsHex(digits)
       /\ Len(digits) <= 64
    THEN [ok |-> TRUE, v |-> <<"AccountAddress", StripZeros(digits)>>]
    ELSE [ok |-> FALSE, v |-> <<>>]

DigitOf(c) ==
    CASE c = "0" -> 0 [] c = "1" -> 1 [] c = "2" -> 2 [] c = "3" -> 3
      [] c = "4" -> 4 [] c = "5" -> 5 [] c = "6" -> 6 [] c = "7" -> 7
      [] c = "8" -> 8 [] c = "9" -> 9 [] OTHER -> 0 - 1

IsDecimal(s) == Len(s) > 0 /\ \A i \in 1..Len(s) : DigitOf(CharAt(s, i)) >= 0

\* a <= b for decimal numerals without leading zeros
NumeralLeq(a, b) ==
    \/ Len(a) < Len(b)
    \/ /\ Len(a) = Len(b)
       /\ \/ a = b
          \/ \E i \in 1..Len(a) :
                /\ SubSeq(a, 1, i - 1) = SubSeq(b, 1, i - 1)
                /\ DigitOf(CharAt(a, i)) < DigitOf(CharAt(b, i))

\* uN::from_str: the numeral of the value, or failure (not decimal, overflow)
from_str(s, max) ==
    IF IsDecimal(s) /\ NumeralLeq(StripZeros(s), max)
    THEN [ok |-> TRUE, v |-> StripZeros(s)]
    ELSE [ok |-> FALSE, v |-> ""]

ends_with(s, suffix) ==
    Len(s) >= Len(suffix) /\ SubSeq(s, Len(s) - Len(suffix) + 1, Len(s)) = suffix

strip_suffix(s, suffix) ==
    IF ends_with(s, suffix) THEN SubSeq(s, 1, Len(s) - Len(suffix)) ELSE s

-----------------------------------------------------------------------------
(* The parser                                                              *)

RECURSIVE parse_comma_list(_, _, _, _)
RECURSIVE parse_comma_list_loop(_, _, _, _, _)
RECURSIVE parse_list_item(_, _)
RECURSIVE parse_exp(_)
RECURSIVE parse_rhs_of_binary_exp(_, _, _)
RECURSIVE parse_rhs_of_binary_exp_loop(_, _, _, _)
RECURSIVE parse_qualified_function_name(_)
RECURSIVE parse_borrow_field_(_, _)
RECURSIVE parse_unary_exp_(_)
RECURSIVE parse_unary_exp(_)
RECURSIVE parse_call(_)
RECURSIVE parse_call_or_term_(_)
RECURSIVE parse_call_or_term(_)
RECURSIVE parse_field_exp(_)
RECURSIVE parse_pack_(_, _, _)
RECURSIVE parse_term_(_)
RECURSIVE parse_builtin(_)
RECURSIVE parse_type(_)
RECURSIVE parse_type_actuals(_)
RECURSIVE parse_name_and_type_actuals(_)
RECURSIVE parse_statement(_)
RECURSIVE parse_if_statement(_)
RECURSIVE parse_while_statement(_)
RECURSIVE parse_loop_statement(_)
RECURSIVE parse_statements(_)
RECURSIVE parse_statements_loop(_, _)
RECURSIVE parse_block(_)
RECURSIVE parse_storage_location(_)
RECURSIVE parse_storage_location_fields(_, _, _)
RECURSIVE parse_unary_spec_exp(_)
RECURSIVE parse_spec_call_args(_, _)
RECURSIVE parse_rhs_of_spec_exp(_, _, _)
RECURSIVE parse_rhs_of_spec_exp_loop(_, _, _, _)
RECURSIVE parse_spec_exp(_)

\* consume_token reporting the end of the token before
consume_token_at_previous_end(tokens, tok) ==
    IF peek(tokens) # tok THEN Err(InvalidToken(previous_end_loc(tokens)), tokens)
    ELSE advance(tokens)

consume_token(tokens, tok) ==
    IF peek(tokens) # tok THEN Err(InvalidToken(start_loc(tokens)), tokens)
    ELSE advance(tokens)

\* adjust_token leaving a `>>` whole
adjust_token_without_split(tokens, list_end_tokens) == Ok(<<>>, tokens)

\* adjust_token splitting a `>>` whatever the list's end tokens are
adjust_token_any_list(tokens, list_end_tokens) ==
    IF peek(tokens) = "GreaterGreater"
    THEN replace_token(tokens, "Greater", 1)
    ELSE Ok(<<>>, tokens)

adjust_token(tokens, list_end_tokens) ==
    IF peek(tokens) = "GreaterGreater" /\ "Greater" \in list_end_tokens
    THEN replace_token(tokens, "Greater", 1)
    ELSE Ok(<<>>, tokens)

\* parse_comma_list's loop putting each item in front of the ones before it
parse_comma_list_loop_prepending(tokens, list_end_tokens, item, allow_trailing_comma, v) ==
    LET r1 == parse_list_item(item, tokens) IN
    IF ~r1.ok THEN Fail(r1) ELSE
    LET v1 == <<r1.v>> \o v
        r2 == adjust_token(r1.lx, list_end_tokens) IN
    IF ~r2.ok THEN Fail(r2) ELSE
    IF peek(r2.lx) \in list_end_tokens THEN Ok(v1, r2.lx) ELSE
    LET r3 == consume_token(r2.lx, "Comma") IN
    IF ~r3.ok THEN Fail(r3) ELSE
    LET r4 == adjust_token(r3.lx, list_end_tokens) IN
    IF ~r4.ok THEN Fail(r4) ELSE
    IF peek(r4.lx) \in list_end_tokens /\ allow_trailing_comma THEN Ok(v1, r4.lx)
    ELSE parse_comma_list_loop(r4.lx, list_end_tokens, item, allow_trailing_comma, v1)

\* parse_comma_list's loop ending at a `,` before an end token whatever
\* allow_trailing_comma says
parse_comma_list_loop_any_trailing(tokens, list_end_tokens, item, allow_trailing_comma, v) ==
    LET r1 == parse_list_item(item, tokens) IN
    IF ~r1.ok THEN Fail(r1) ELSE
    LET v1 == Append(v, r1.v)
        r2 == adjust_token(r1.lx, list_end_tokens) IN
    IF ~r2.ok THEN Fail(r2) ELSE
    IF peek(r2.lx) \in list_end_tokens THEN Ok(v1, r2.lx) ELSE
    LET r3 == consume_token(r2.lx, "Comma") IN
    IF ~r3.ok THEN Fail(r3) ELSE
    LET r4 == adjust_token(r3.lx, list_end_tokens) IN
    IF ~r4.ok THEN Fail(r4) ELSE
    IF peek(r4.lx) \in list_end_tokens THEN Ok(v1, r4.lx)
    ELSE parse_comma_list_loop(r4.lx, list_end_tokens, item, allow_trailing_comma, v1)

\* one turn of the `loop` of parse_comma_list
parse_comma_list_loop(tokens, list_end_tokens, item, allow_trailing_comma, v) ==
    LET r1 == parse_list_item(item, tokens) IN
    IF ~r1.ok THEN Fail(r1) ELSE
    LET v1 == Append(v, r1.v)
        r2 == adjust_token(r1.lx, list_end_tokens) IN
    IF ~r2.ok THEN Fail(r2) ELSE
    IF peek(r2.lx) \in list_end_tokens THEN Ok(v1, r2.lx) ELSE
    LET r3 == consume_token(r2.lx, "Comma") IN
    IF ~r3.ok THEN Fail(r3) ELSE
    LET r4 == adjust_token(r3.lx, list_end_tokens) IN
    IF ~r4.ok THEN Fail(r4) ELSE
    IF peek(r4.lx) \in list_end_tokens /\ allow_trailing_comma THEN Ok(v1, r4.lx)
    ELSE parse_comma_list_loop(r4.lx, list_end_tokens, item, allow_trailing_comma, v1)

parse_comma_list(tokens, list_end_tokens, item, allow_trailing_comma) ==
    LET r0 == adjust_token(tokens, list_end_tokens) IN
    IF ~r0.ok THEN Fail(r0) ELSE
    IF peek(r0.lx) \in list_end_tokens THEN Ok(<<>>, r0.lx)
    ELSE parse_comma_list_loop(r0.lx, list_end_tokens, item, allow_trailing_comma, <<>>)

parse_name(tokens) ==
    IF peek(tokens) # "NameValue" THEN Err(InvalidToken(start_loc(tokens)), tokens)
    ELSE LET name == content(tokens)
             r == advance(tokens)
         IN IF ~r.ok THEN Fail(r) ELSE Ok(name, r.lx)

parse_name_begin_ty(tokens) ==
    IF peek(tokens) # "NameBeginTyValue"
    THEN Err(InvalidToken(start_loc(tokens)), tokens)
    ELSE LET s == content(tokens)
             \* the token includes a "<" at the end: chop that off
             name == SubSeq(s, 1, Len(s) - 1)
             r == advance(tokens)
         IN IF ~r.ok THEN Fail(r) ELSE Ok(name, r.lx)

parse_dot_name(tokens) ==
    IF peek(tokens) # "DotNameValue" THEN Err(InvalidToken(start_loc(tokens)), tokens)
    ELSE LET name == content(tokens)
             r == advance(tokens)
         IN IF ~r.ok THEN Fail(r) ELSE Ok(name, r.lx)

\* str::split('.'): the pieces between the dots
RECURSIVE split_dot(_, _)
split_dot(s, piece) ==
    IF s = "" THEN <<piece>>
    ELSE IF CharAt(s, 1) = "." THEN <<piece>> \o split_dot(SubSeq(s, 2, Len(s)), "")
    ELSE split_dot(SubSeq(s, 2, Len(s)), piece \o CharAt(s, 1))

parse_account_address(tokens) ==
    IF peek(tokens) # "AccountAddressValue"
    THEN Err(InvalidToken(start_loc(tokens)), tokens)
    ELSE LET addr == AccountAddress_from_hex_literal(content(tokens)) IN
         IF ~addr.ok THEN Err(Panic("unwrap: address of invalid length"), tokens)
         ELSE LET r == advance(tokens)
              IN IF ~r.ok THEN Fail(r) ELSE Ok(addr.v, r.lx)

parse_var_(tokens) ==
    LET r == parse_name(tokens) IN
    IF ~r.ok THEN Fail(r) ELSE Var_parse(r.v, r.lx)

parse_var(tokens) ==
    LET start == start_loc(tokens)
        r == parse_var_(tokens)
    IN IF ~r.ok THEN Fail(r)
       ELSE Ok(spanned(start, previous_end_loc(r.lx), r.v), r.lx)

parse_field(tokens) ==
    LET start == start_loc(tokens)
        r == parse_name(tokens)
    IN IF ~r.ok THEN Fail(r) ELSE
       LET f == parse_field_(r.v, r.lx) IN
       IF ~f.ok THEN Fail(f)
       ELSE Ok(spanned(start, previous_end_loc(f.lx), f.v), f.lx)

U8Max == "255"
U64Max == "18446744073709551615"
U128Max == "340282366920938463463374607431768211455"

\* an integer literal: the suffix is stripped and the body parsed in its width
parse_int_val(tokens, tag, suffix, max) ==
    LET i == from_str(strip_suffix(content(tokens), suffix), max) IN
    IF ~i.ok THEN Err(Panic("unwrap: from_str"), tokens)
    ELSE LET r == advance(tokens)
         IN IF ~r.ok THEN Fail(r) ELSE Ok(<<tag, i.v>>, r.lx)

parse_copyable_val_(tokens) ==
    LET t == peek(tokens) IN
    CASE t = "AccountAddressValue" ->
            LET r == parse_account_address(tokens)
            IN IF ~r.ok THEN Fail(r) ELSE Ok(<<"Address", r.v>>, r.lx)
      [] t = "True" ->
            LET r == advance(tokens)
            IN IF ~r.ok THEN Fail(r) ELSE Ok(<<"Bool", TRUE>>, r.lx)
      [] t = "False" ->
            LET r == advance(tokens)
            IN IF ~r.ok THEN Fail(r) ELSE Ok(<<"Bool", FALSE>>, r.lx)
      [] t = "U8Value" -> parse_int_val(tokens, "U8", "u8", U8Max)
      [] t = "U64Value" -> parse_int_val(tokens, "U64", "u64", U64Max)
      [] t = "U128Value" -> parse_int_val(tokens, "U128", "u128", U128Max)
      [] t = "ByteArrayValue" ->
            LET s == content(tokens)
                body == SubSeq(s, 3, Len(s) - 1)
            IN IF ~(IsHex(body) /\ Len(body) % 2 = 0)
               THEN Err(Panic("unreachable: not a hex-encoded byte array"), tokens)
               ELSE LET r == advance(tokens)
                    IN IF ~r.ok THEN Fail(r) ELSE Ok(<<"ByteArray", body>>, r.lx)
      [] OTHER -> Err(InvalidToken(start_loc(tokens)), tokens)

parse_copyable_val(tokens) ==
    LET start == start_loc(tokens)
        r == parse_copyable_val_(tokens)
    IN IF ~r.ok THEN Fail(r)
       ELSE Ok(spanned(start, previous_end_loc(r.lx), r.v), r.lx)

\* get_precedence with `|` binding looser than the comparisons
get_precedence_pipe_below_comparisons(token) ==
    CASE token = "EqualEqualGreater" -> 1
      [] token = "PipePipe" -> 2
      [] token = "AmpAmp" -> 3
      [] token = "Pipe" -> 4
      [] token \in {"EqualEqual", "ExclaimEqual", "Less", "Greater",
                    "LessEqual", "GreaterEqual"} -> 5
      [] token = "Caret" -> 6
      [] token = "Amp" -> 7
      [] token \in {"LessLess", "GreaterGreater"} -> 8
      [] token \in {"Plus", "Minus"} -> 9
      [] token \in {"Star", "Slash", "Percent"} -> 10
      [] OTHER -> 0

\* The precedence of a binary operator; 0 for what is not one.
get_precedence(token) ==
    CASE token = "EqualEqualGreater" -> 1
      [] token = "PipePipe" -> 2
      [] token = "AmpAmp" -> 3
      [] token \in {"EqualEqual", "ExclaimEqual", "Less", "Greater",
                    "LessEqual", "GreaterEqual"} -> 4
      [] token = "Pipe" -> 5
      [] token = "Caret" -> 6
      [] token = "Amp" -> 7
      [] token \in {"LessLess", "GreaterGreater"} -> 8
      [] token \in {"Plus", "Minus"} -> 9
      [] token \in {"Star", "Slash", "Percent"} -> 10
      [] OTHER -> 0

\* the `match op_token` of parse_rhs_of_binary_exp ("panic": its `_` arm)
binop_of_token(op_token) ==
    CASE op_token = "EqualEqual" -> "Eq" [] op_token = "ExclaimEqual" -> "Neq"
      [] op_token = "Less" -> "Lt" [] op_token = "Greater" -> "Gt"
      [] op_token = "LessEqual" -> "Le" [] op_token = "GreaterEqual" -> "Ge"
      [] op_token = "PipePipe" -> "Or" [] op_token = "AmpAmp" -> "And"
      [] op_token = "Caret" -> "Xor" [] op_token = "LessLess" -> "Shl"
      [] op_token = "GreaterGreater" -> "Shr" [] op_token = "Pipe" -> "BitOr"
      [] op_token = "Amp" -> "BitAnd" [] op_token = "Plus" -> "Add"
      [] op_token = "Minus" -> "Sub" [] op_token = "Star" -> "Mul"
      [] op_token = "Slash" -> "Div" [] op_token = "Percent" -> "Mod"
      [] OTHER -> "panic"

parse_exp(tokens) ==
    LET lhs == parse_unary_exp(tokens) IN
    IF ~lhs.ok THEN Fail(lhs)
    ELSE parse_rhs_of_binary_exp(lhs.lx, lhs.v, 1)

\* the `while next_tok_prec >= min_prec` loop of parse_rhs_of_binary_exp
parse_rhs_of_binary_exp_loop(tokens, result, next_tok_prec, min_prec) ==
    IF ~(next_tok_prec >= min_prec) THEN Ok(result, tokens) ELSE
    LET op_token == peek(tokens)
        r1 == advance(tokens) IN
    IF ~r1.ok THEN Fail(r1) ELSE
    LET r2 == parse_unary_exp(r1.lx) IN
    IF ~r2.ok THEN Fail(r2) ELSE
    LET this_prec == next_tok_prec
        r3 == IF this_prec < get_precedence(peek(r2.lx))
              THEN parse_rhs_of_binary_exp(r2.lx, r2.v, this_prec + 1)
              ELSE Ok(r2.v, r2.lx) IN
    IF ~r3.ok THEN Fail(r3) ELSE
    LET op == binop_of_token(op_token) IN
    IF op = "panic"
    THEN Err(Panic("Unexpected token that is not a binary operator"), r3.lx) ELSE
    LET e == [span |-> <<result.span[1], previous_end_loc(r3.lx)>>,
              value |-> <<"BinopExp", result, op, r3.v>>]
    IN parse_rhs_of_binary_exp_loop(r3.lx, e, get_precedence(peek(r3.lx)), min_prec)

\* parse_rhs_of_binary_exp taking the first operator to have the minimum
\* precedence instead of its own
parse_rhs_first_op_at_min_prec(tokens, lhs, min_prec) ==
    parse_rhs_of_binary_exp_loop(
        tokens, lhs,
        IF get_precedence(peek(tokens)) = 0 THEN 0 ELSE min_prec, min_prec)

parse_rhs_of_binary_exp(tokens, lhs, min_prec) ==
    parse_rhs_of_binary_exp_loop(tokens, lhs, get_precedence(peek(tokens)), min_prec)

BuiltinTokens == {"Exists", "BorrowGlobal", "BorrowGlobalMut", "GetTxnSender",
                  "MoveFrom", "MoveToSender", "Freeze", "ToU8", "ToU64", "ToU128"}

parse_qualified_function_name(tokens) ==
    LET start == start_loc(tokens)
        t == peek(tokens)
        call ==
          CASE t \in BuiltinTokens ->
                LET f == parse_builtin(tokens)
                IN IF ~f.ok THEN Fail(f) ELSE Ok(<<"Builtin", f.v>>, f.lx)
            [] t = "DotNameValue" ->
                LET r1 == parse_dot_name(tokens) IN
                IF ~r1.ok THEN Fail(r1) ELSE
                LET r2 == parse_type_actuals(r1.lx) IN
                IF ~r2.ok THEN Fail(r2) ELSE
                LET v == split_dot(r1.v, "") IN
                IF Len(v) # 2 THEN Err(Panic("assert: v.len() == 2"), r2.lx) ELSE
                LET m == ModuleName_parse(v[1], r2.lx) IN
                IF ~m.ok THEN Fail(m) ELSE
                LET n == FunctionName_parse(v[2], r2.lx) IN
                IF ~n.ok THEN Fail(n) ELSE
                Ok(<<"ModuleFunctionCall", m.v, n.v, r2.v>>, r2.lx)
            [] OTHER -> Err(InvalidToken(start_loc(tokens)), tokens)
    IN IF ~call.ok THEN Fail(call)
       ELSE Ok(spanned(start, previous_end_loc(call.lx), call.v), call.lx)

parse_borrow_field_(tokens, mutable) ==
    LET e ==
          IF peek(tokens) = "NameValue" THEN
              LET la == lookahead(tokens) IN
              IF ~la.ok THEN Fail(la) ELSE
              IF la.v # "LBrace" THEN
                  LET var == parse_var(tokens)
                  IN IF ~var.ok THEN Fail(var)
                     ELSE [Ok(<<"BorrowLocal", mutable, var.v>>, var.lx)
                              EXCEPT !.err = <<"return">>]
              ELSE
                  LET start == start_loc(tokens)
                      name == parse_name(tokens) IN
                  IF ~name.ok THEN Fail(name) ELSE
                  LET end == previous_end_loc(name.lx)
                      pack == parse_pack_(name.lx, name.v, <<>>)
                  IN IF ~pack.ok THEN Fail(pack)
                     ELSE Ok(spanned(start, end, pack.v), pack.lx)
          ELSE parse_unary_exp(tokens)
    IN IF ~e.ok THEN Fail(e) ELSE
       \* the early `return Ok(Exp_::BorrowLocal(mutable, var))`
       IF e.err = <<"return">> THEN Ok(e.v, e.lx) ELSE
       LET r1 == consume_token(e.lx, "Period") IN
       IF ~r1.ok THEN Fail(r1) ELSE
       LET r2 == parse_name(r1.lx) IN
       IF ~r2.ok THEN Fail(r2) ELSE
       LET f == parse_field_(r2.v, r2.lx) IN
       IF ~f.ok THEN Fail(f)
       ELSE Ok(<<"Borrow", mutable, e.v, f.v>>, f.lx)

parse_unary_exp_(tokens) ==
    LET t == peek(tokens) IN
    CASE t = "Exclaim" ->
            LET r == advance(tokens) IN
            IF ~r.ok THEN Fail(r) ELSE
            LET e == parse_unary_exp(r.lx)
            IN IF ~e.ok THEN Fail(e) ELSE Ok(<<"UnaryExp", "Not", e.v>>, e.lx)
      [] t = "Star" ->
            LET r == advance(tokens) IN
            IF ~r.ok THEN Fail(r) ELSE
            LET e == parse_unary_exp(r.lx)
            IN IF ~e.ok THEN Fail(e) ELSE Ok(<<"Dereference", e.v>>, e.lx)
      [] t = "AmpMut" ->
            LET r == advance(tokens)
            IN IF ~r.ok THEN Fail(r) ELSE parse_borrow_field_(r.lx, TRUE)
      [] t = "Amp" ->
            LET r == advance(tokens)
            IN IF ~r.ok THEN Fail(r) ELSE parse_borrow_field_(r.lx, FALSE)
      [] OTHER -> parse_call_or_term_(tokens)

parse_unary_exp(tokens) ==
    LET start == start_loc(tokens)
        e == parse_unary_exp_(tokens)
    IN IF ~e.ok THEN Fail(e)
       ELSE Ok(spanned(start, previous_end_loc(e.lx), e.v), e.lx)

parse_call(tokens) ==
    LET start == start_loc(tokens)
        f == parse_qualified_function_name(tokens) IN
    IF ~f.ok THEN Fail(f) ELSE
    LET exp == parse_call_or_term(f.lx) IN
    IF ~exp.ok THEN Fail(exp)
    ELSE Ok(spanned(start, previous_end_loc(exp.lx), <<"FunctionCall", f.v, exp.v>>),
            exp.lx)

parse_call_or_term_(tokens) ==
    IF peek(tokens) \in BuiltinTokens \cup {"DotNameValue"} THEN
        LET f == parse_qualified_function_name(tokens) IN
        IF ~f.ok THEN Fail(f) ELSE
        LET exp == parse_call_or_term(f.lx) IN
        IF ~exp.ok THEN Fail(exp)
        ELSE Ok(<<"FunctionCall", f.v, exp.v>>, exp.lx)
    ELSE parse_term_(tokens)

parse_call_or_term(tokens) ==
    LET start == start_loc(tokens)
        v == parse_call_or_term_(tokens)
    IN IF ~v.ok THEN Fail(v)
       ELSE Ok(spanned(start, previous_end_loc(v.lx), v.v), v.lx)

parse_field_exp(tokens) ==
    LET f == parse_field(tokens) IN
    IF ~f.ok THEN Fail(f) ELSE
    LET r == consume_token(f.lx, "Colon") IN
    IF ~r.ok THEN Fail(r) ELSE
    LET e == parse_exp(r.lx) IN
    IF ~e.ok THEN Fail(e) ELSE Ok(<<f.v, e.v>>, e.lx)

parse_pack_(tokens, name, type_actuals) ==
    LET r1 == consume_token(tokens, "LBrace") IN
    IF ~r1.ok THEN Fail(r1) ELSE
    LET fs == parse_comma_list(r1.lx, {"RBrace"}, "field_exp", TRUE) IN
    IF ~fs.ok THEN Fail(fs) ELSE
    LET r2 == consume_token(fs.lx, "RBrace") IN
    IF ~r2.ok THEN Fail(r2) ELSE
    LET n == StructName_parse(name, r2.lx) IN
    IF ~n.ok THEN Fail(n)
    ELSE Ok(<<"Pack", n.v, type_actuals, fs.v>>, r2.lx)

\* `tag(` var `)`: the Move and Copy arms of parse_term_
parse_move_or_copy(tokens, tag) ==
    LET r == advance(tokens) IN
    IF ~r.ok THEN Fail(r) ELSE
    LET v == parse_var(r.lx) IN
    IF ~v.ok THEN Fail(v) ELSE
    LET c == consume_token(v.lx, "RParen") IN
    IF ~c.ok THEN Fail(c) ELSE Ok(<<tag, v.v>>, c.lx)

ValueTokens == {"AccountAddressValue", "True", "False", "U8Value", "U64Value",
                "U128Value", "ByteArrayValue"}

parse_term_(tokens) ==
    LET t == peek(tokens) IN
    CASE t = "Move" -> parse_move_or_copy(tokens, "Move")
      [] t = "Copy" -> parse_move_or_copy(tokens, "Copy")
      [] t \in {"AmpMut", "Amp"} ->
            LET r == advance(tokens) IN
            IF ~r.ok THEN Fail(r) ELSE
            LET v == parse_var(r.lx) IN
            IF ~v.ok THEN Fail(v)
            ELSE Ok(<<"BorrowLocal", t = "AmpMut", v.v>>, v.lx)
      [] t \in ValueTokens ->
            LET v == parse_copyable_val(tokens)
            IN IF ~v.ok THEN Fail(v) ELSE Ok(<<"Value", v.v>>, v.lx)
      [] t \in {"NameValue", "NameBeginTyValue"} ->
            LET nt == parse_name_and_type_actuals(tokens)
            IN IF ~nt.ok THEN Fail(nt) ELSE parse_pack_(nt.lx, nt.v[1], nt.v[2])
      [] t = "LParen" ->
            LET r == advance(tokens) IN
            IF ~r.ok THEN Fail(r) ELSE
            LET exps == parse_comma_list(r.lx, {"RParen"}, "exp", TRUE) IN
            IF ~exps.ok THEN Fail(exps) ELSE
            LET c == consume_token(exps.lx, "RParen") IN
            IF ~c.ok THEN Fail(c) ELSE Ok(<<"ExprList", exps.v>>, c.lx)
      [] OTHER -> Err(InvalidToken(start_loc(tokens)), tokens)

parse_struct_name(tokens) ==
    LET r == parse_name(tokens) IN
    IF ~r.ok THEN Fail(r) ELSE StructName_parse(r.v, r.lx)

parse_qualified_struct_ident(tokens) ==
    LET r == parse_dot_name(tokens) IN
    IF ~r.ok THEN Fail(r) ELSE
    LET v == split_dot(r.v, "") IN
    IF Len(v) # 2 THEN Err(Panic("assert: v.len() == 2"), r.lx) ELSE
    LET m == ModuleName_parse(v[1], r.lx) IN
    IF ~m.ok THEN Fail(m) ELSE
    LET n == StructName_parse(v[2], r.lx) IN
    IF ~n.ok THEN Fail(n) ELSE Ok(<<"QualifiedStructIdent", m.v, n.v>>, r.lx)

parse_module_name(tokens) ==
    LET r == parse_name(tokens) IN
    IF ~r.ok THEN Fail(r) ELSE ModuleName_parse(r.v, r.lx)

\* consume_end_of_generics keeping both bytes of a `>>`
consume_end_of_generics_whole(tokens) ==
    CASE peek(tokens) = "Greater" -> advance(tokens)
      [] peek(tokens) = "GreaterGreater" ->
            LET r == replace_token(tokens, "Greater", 2)
            IN IF ~r.ok THEN Fail(r) ELSE advance(r.lx)
      [] OTHER -> Err(InvalidToken(start_loc(tokens)), tokens)

consume_end_of_generics(tokens) ==
    CASE peek(tokens) = "Greater" -> advance(tokens)
      [] peek(tokens) = "GreaterGreater" ->
            LET r == replace_token(tokens, "Greater", 1)
            IN IF ~r.ok THEN Fail(r) ELSE advance(r.lx)
      [] OTHER -> Err(InvalidToken(start_loc(tokens)), tokens)

\* a builtin that takes type arguments: `tag<` name_and_type_actuals `>`
parse_generic_builtin(tokens, tag) ==
    LET r == advance(tokens) IN
    IF ~r.ok THEN Fail(r) ELSE
    LET nt == parse_name_and_type_actuals(r.lx) IN
    IF ~nt.ok THEN Fail(nt) ELSE
    LET c == consume_end_of_generics(nt.lx) IN
    IF ~c.ok THEN Fail(c) ELSE
    LET n == StructName_parse(nt.v[1], c.lx) IN
    IF ~n.ok THEN Fail(n) ELSE Ok(tag \o <<n.v, nt.v[2]>>, c.lx)

\* a builtin that is one keyword
parse_plain_builtin(tokens, tag) ==
    LET r == advance(tokens) IN IF ~r.ok THEN Fail(r) ELSE Ok(tag, r.lx)

parse_builtin(tokens) ==
    LET t == peek(tokens) IN
    CASE t = "Exists" -> parse_generic_builtin(tokens, <<"Exists">>)
      [] t = "BorrowGlobal" -> parse_generic_builtin(tokens, <<"BorrowGlobal", FALSE>>)
      [] t = "BorrowGlobalMut" -> parse_generic_builtin(tokens, <<"BorrowGlobal", TRUE>>)
      [] t = "GetTxnSender" -> parse_plain_builtin(tokens, <<"GetTxnSender">>)
      [] t = "MoveFrom" -> parse_generic_builtin(tokens, <<"MoveFrom">>)
      [] t = "MoveToSender" -> parse_generic_builtin(tokens, <<"MoveToSender">>)
      [] t = "Freeze" -> parse_plain_builtin(tokens, <<"Freeze">>)
      [] t = "ToU8" -> parse_plain_builtin(tokens, <<"ToU8">>)
      [] t = "ToU64" -> parse_plain_builtin(tokens, <<"ToU64">>)
      [] t = "ToU128" -> parse_plain_builtin(tokens, <<"ToU128">>)
      [] OTHER -> Err(InvalidToken(start_loc(tokens)), tokens)

parse_lvalue_(tokens) ==
    LET t == peek(tokens) IN
    CASE t = "NameValue" ->
            LET l == parse_var(tokens)
            IN IF ~l.ok THEN Fail(l) ELSE Ok(<<"Var", l.v>>, l.lx)
      [] t = "Star" ->
            LET r == advance(tokens) IN
            IF ~r.ok THEN Fail(r) ELSE
            LET e == parse_exp(r.lx)
            IN IF ~e.ok THEN Fail(e) ELSE Ok(<<"Mutate", e.v>>, e.lx)
      [] t = "Underscore" ->
            LET r == advance(tokens)
            IN IF ~r.ok THEN Fail(r) ELSE Ok(<<"Pop">>, r.lx)
      [] OTHER -> Err(InvalidToken(start_loc(tokens)), tokens)

parse_lvalue(tokens) ==
    LET start == start_loc(tokens)
        lv == parse_lvalue_(tokens)
    IN IF ~lv.ok THEN Fail(lv)
       ELSE Ok(spanned(start, previous_end_loc(lv.lx), lv.v), lv.lx)

\* parse_field_bindings giving the variable of a lone field no span
parse_field_bindings_var_no_loc(tokens) ==
    LET f == parse_field(tokens) IN
    IF ~f.ok THEN Fail(f) ELSE
    IF peek(f.lx) = "Colon" THEN
        LET r == advance(f.lx) IN
        IF ~r.ok THEN Fail(r) ELSE
        LET v == parse_var(r.lx)
        IN IF ~v.ok THEN Fail(v) ELSE Ok(<<f.v, v.v>>, v.lx)
    ELSE Ok(<<f.v, no_loc(Var_new(Field_name(f.v.value)))>>, f.lx)

parse_field_bindings(tokens) ==
    LET f == parse_field(tokens) IN
    IF ~f.ok THEN Fail(f) ELSE
    IF peek(f.lx) = "Colon" THEN
        LET r == advance(f.lx) IN     \* consume the colon
        IF ~r.ok THEN Fail(r) ELSE
        LET v == parse_var(r.lx)
        IN IF ~v.ok THEN Fail(v) ELSE Ok(<<f.v, v.v>>, v.lx)
    ELSE Ok(<<f.v, [span |-> f.v.span, value |-> Var_new(Field_name(f.v.value))]>>,
            f.lx)

\* parse_assign_ taking a `,` before the `=`
parse_assign_with_trailing_comma(tokens) ==
    LET lvalues == parse_comma_list(tokens, {"Equal"}, "lvalue", TRUE) IN
    IF ~lvalues.ok THEN Fail(lvalues) ELSE
    IF lvalues.v = <<>> THEN Err(InvalidToken(start_loc(lvalues.lx)), lvalues.lx) ELSE
    LET r == consume_token(lvalues.lx, "Equal") IN
    IF ~r.ok THEN Fail(r) ELSE
    LET e == parse_exp(r.lx)
    IN IF ~e.ok THEN Fail(e) ELSE Ok(<<"Assign", lvalues.v, e.v>>, e.lx)

parse_assign_(tokens) ==
    LET lvalues == parse_comma_list(tokens, {"Equal"}, "lvalue", FALSE) IN
    IF ~lvalues.ok THEN Fail(lvalues) ELSE
    IF lvalues.v = <<>> THEN Err(InvalidToken(start_loc(lvalues.lx)), lvalues.lx) ELSE
    LET r == consume_token(lvalues.lx, "Equal") IN
    IF ~r.ok THEN Fail(r) ELSE
    LET e == parse_exp(r.lx)
    IN IF ~e.ok THEN Fail(e) ELSE Ok(<<"Assign", lvalues.v, e.v>>, e.lx)

parse_unpack_(tokens, name, type_actuals) ==
    LET r1 == consume_token(tokens, "LBrace") IN
    IF ~r1.ok THEN Fail(r1) ELSE
    LET bindings == parse_comma_list(r1.lx, {"RBrace"}, "field_bindings", TRUE) IN
    IF ~bindings.ok THEN Fail(bindings) ELSE
    LET r2 == consume_token(bindings.lx, "RBrace") IN
    IF ~r2.ok THEN Fail(r2) ELSE
    LET r3 == consume_token(r2.lx, "Equal") IN
    IF ~r3.ok THEN Fail(r3) ELSE
    LET e == parse_exp(r3.lx) IN
    IF ~e.ok THEN Fail(e) ELSE
    LET n == StructName_parse(name, e.lx) IN
    IF ~n.ok THEN Fail(n)
    ELSE Ok(<<"Unpack", n.v, type_actuals, bindings.v, e.v>>, e.lx)

parse_cmd_(tokens) ==
    LET t == peek(tokens) IN
    CASE t = "NameValue" ->
            \* either an LValue of an assignment or the name of an unpack
            LET la == lookahead(tokens) IN
            IF ~la.ok THEN Fail(la) ELSE
            IF la.v = "LBrace" THEN
                LET name == parse_name(tokens)
                IN IF ~name.ok THEN Fail(name)
                   ELSE parse_unpack_(name.lx, name.v, <<>>)
            ELSE parse_assign_(tokens)
      [] t \in {"Star", "Underscore"} -> parse_assign_(tokens)
      [] t = "NameBeginTyValue" ->
            LET nt == parse_name_and_type_actuals(tokens)
            IN IF ~nt.ok THEN Fail(nt) ELSE parse_unpack_(nt.lx, nt.v[1], nt.v[2])
      [] t = "Abort" ->
            LET r == advance(tokens) IN
            IF ~r.ok THEN Fail(r) ELSE
            IF peek(r.lx) = "Semicolon" THEN Ok(<<"Abort", <<"None">>>>, r.lx) ELSE
            LET e == parse_exp(r.lx)
            IN IF ~e.ok THEN Fail(e) ELSE Ok(<<"Abort", <<"Some", e.v>>>>, e.lx)
      [] t = "Return" ->
            LET r == advance(tokens) IN
            IF ~r.ok THEN Fail(r) ELSE
            LET v == parse_comma_list(r.lx, {"Semicolon"}, "exp", TRUE)
            IN IF ~v.ok THEN Fail(v)
               ELSE Ok(<<"Return", no_loc(<<"ExprList", v.v>>)>>, v.lx)
      [] t = "Continue" ->
            LET r == advance(tokens)
            IN IF ~r.ok THEN Fail(r) ELSE Ok(<<"Continue">>, r.lx)
      [] t = "Break" ->
            LET r == advance(tokens)
            IN IF ~r.ok THEN Fail(r) ELSE Ok(<<"Break">>, r.lx)
      [] t \in BuiltinTokens \cup {"DotNameValue"} ->
            LET c == parse_call(tokens)
            IN IF ~c.ok THEN Fail(c) ELSE Ok(<<"Exp", c.v>>, c.lx)
      [] t = "LParen" ->
            LET r == advance(tokens) IN
            IF ~r.ok THEN Fail(r) ELSE
            LET v == parse_comma_list(r.lx, {"RParen"}, "exp", TRUE) IN
            IF ~v.ok THEN Fail(v) ELSE
            LET c == consume_token(v.lx, "RParen")
            IN IF ~c.ok THEN Fail(c)
               ELSE Ok(<<"Exp", no_loc(<<"ExprList", v.v>>)>>, c.lx)
      [] OTHER -> Err(InvalidToken(start_loc(tokens)), tokens)

\* IfElse::if_block and IfElse::if_else of the AST crate
IfElse_if_block(cond, if_block) == <<"IfElse", cond, if_block, <<"None">>>>
IfElse_if_else(cond, if_block, else_block) ==
    <<"IfElse", cond, if_block, <<"Some", else_block>>>>
Block_new(stmts) == <<"Block_", stmts>>

\* assert_desugar with the then-block spanning the condition
assert_desugar_block_at_cond(e, err) ==
    LET cond == [span |-> e.span, value |-> <<"UnaryExp", "Not", e>>]
        stmt == <<"CommandStatement",
                  [span |-> err.span, value |-> <<"Abort", <<"Some", err>>>>]>>
    IN <<"IfElseStatement",
         IfElse_if_block(cond, [span |-> e.span, value |-> Block_new(<<stmt>>)])>>

\* the statement parse_statement builds for `assert(e, err)`
assert_desugar(e, err) ==
    LET cond == [span |-> e.span, value |-> <<"UnaryExp", "Not", e>>]
        span == err.span
        stmt == <<"CommandStatement",
                  [span |-> span, value |-> <<"Abort", <<"Some", err>>>>]>>
    IN <<"IfElseStatement",
         IfElse_if_block(cond, [span |-> span, value |-> Block_new(<<stmt>>)])>>

\* the Tok::Assert arm taking a `;` after the `)`
parse_assert_statement_with_semicolon(tokens) ==
    LET r == advance(tokens) IN
    IF ~r.ok THEN Fail(r) ELSE
    LET e == parse_exp(r.lx) IN
    IF ~e.ok THEN Fail(e) ELSE
    LET c1 == consume_token(e.lx, "Comma") IN
    IF ~c1.ok THEN Fail(c1) ELSE
    LET err == parse_exp(c1.lx) IN
    IF ~err.ok THEN Fail(err) ELSE
    LET c2 == consume_token(err.lx, "RParen") IN
    IF ~c2.ok THEN Fail(c2) ELSE
    LET c3 == consume_token(c2.lx, "Semicolon") IN
    IF ~c3.ok THEN Fail(c3) ELSE Ok(assert_desugar(e.v, err.v), c3.lx)

\* the Tok::Assert arm of parse_statement
parse_assert_statement(tokens) ==
    LET r == advance(tokens) IN
    IF ~r.ok THEN Fail(r) ELSE
    LET e == parse_exp(r.lx) IN
    IF ~e.ok THEN Fail(e) ELSE
    LET c1 == consume_token(e.lx, "Comma") IN
    IF ~c1.ok THEN Fail(c1) ELSE
    LET err == parse_exp(c1.lx) IN
    IF ~err.ok THEN Fail(err) ELSE
    LET c2 == consume_token(err.lx, "RParen") IN
    IF ~c2.ok THEN Fail(c2) ELSE Ok(assert_desugar(e.v, err.v), c2.lx)

\* the `_` arm of parse_statement: a command and its `;`
parse_cmd_statement(tokens) ==
    LET start == start_loc(tokens)
        c == parse_cmd_(tokens) IN
    IF ~c.ok THEN Fail(c) ELSE
    LET cmd == spanned(start, previous_end_loc(c.lx), c.v)
        r == consume_token(c.lx, "Semicolon")
    IN IF ~r.ok THEN Fail(r) ELSE Ok(<<"CommandStatement", cmd>>, r.lx)

parse_statement(tokens) ==
    LET t == peek(tokens) IN
    CASE t = "Assert" -> parse_assert_statement(tokens)
      [] t = "If" -> parse_if_statement(tokens)
      [] t = "While" -> parse_while_statement(tokens)
      [] t = "Loop" -> parse_loop_statement(tokens)
      [] t = "Semicolon" ->
            LET r == advance(tokens)
            IN IF ~r.ok THEN Fail(r) ELSE Ok(<<"EmptyStatement">>, r.lx)
      [] OTHER -> parse_cmd_statement(tokens)

parse_if_statement(tokens) ==
    LET r1 == consume_token(tokens, "If") IN
    IF ~r1.ok THEN Fail(r1) ELSE
    LET r2 == consume_token(r1.lx, "LParen") IN
    IF ~r2.ok THEN Fail(r2) ELSE
    LET cond == parse_exp(r2.lx) IN
    IF ~cond.ok THEN Fail(cond) ELSE
    LET r3 == consume_token(cond.lx, "RParen") IN
    IF ~r3.ok THEN Fail(r3) ELSE
    LET if_block == parse_block(r3.lx) IN
    IF ~if_block.ok THEN Fail(if_block) ELSE
    IF peek(if_block.lx) = "Else" THEN
        LET r4 == advance(if_block.lx) IN
        IF ~r4.ok THEN Fail(r4) ELSE
        LET else_block == parse_block(r4.lx) IN
        IF ~else_block.ok THEN Fail(else_block)
        ELSE Ok(<<"IfElseStatement",
                  IfElse_if_else(cond.v, if_block.v, else_block.v)>>, else_block.lx)
    ELSE Ok(<<"IfElseStatement", IfElse_if_block(cond.v, if_block.v)>>, if_block.lx)

parse_while_statement(tokens) ==
    LET r1 == consume_token(tokens, "While") IN
    IF ~r1.ok THEN Fail(r1) ELSE
    LET r2 == consume_token(r1.lx, "LParen") IN
    IF ~r2.ok THEN Fail(r2) ELSE
    LET cond == parse_exp(r2.lx) IN
    IF ~cond.ok THEN Fail(cond) ELSE
    LET r3 == consume_token(cond.lx, "RParen") IN
    IF ~r3.ok THEN Fail(r3) ELSE
    LET block == parse_block(r3.lx) IN
    IF ~block.ok THEN Fail(block)
    ELSE Ok(<<"WhileStatement", cond.v, block.v>>, block.lx)

parse_loop_statement(tokens) ==
    LET r1 == consume_token(tokens, "Loop") IN
    IF ~r1.ok THEN Fail(r1) ELSE
    LET block == parse_block(r1.lx) IN
    IF ~block.ok THEN Fail(block)
    ELSE Ok(<<"LoopStatement", block.v>>, block.lx)

\* the `while tokens.peek() != Tok::RBrace` loop, stmts being what it has pushed
parse_statements_loop(tokens, stmts) ==
    IF peek(tokens) = "RBrace" THEN Ok(stmts, tokens) ELSE
    LET s == parse_statement(tokens)
    IN IF ~s.ok THEN Fail(s) ELSE parse_statements_loop(s.lx, Append(stmts, s.v))

parse_statements(tokens) == parse_statements_loop(tokens, <<>>)

parse_block(tokens) ==
    LET start == start_loc(tokens)
        r1 == consume_token(tokens, "LBrace") IN
    IF ~r1.ok THEN Fail(r1) ELSE
    LET stmts == parse_statements(r1.lx) IN
    IF ~stmts.ok THEN Fail(stmts) ELSE
    LET r2 == consume_token(stmts.lx, "RBrace") IN
    IF ~r2.ok THEN Fail(r2)
    ELSE Ok(spanned(start, previous_end_loc(r2.lx), Block_new(stmts.v)), r2.lx)

parse_declaration(tokens) ==
    LET r1 == consume_token(tokens, "Let") IN
    IF ~r1.ok THEN Fail(r1) ELSE
    LET v == parse_var(r1.lx) IN
    IF ~v.ok THEN Fail(v) ELSE
    LET r2 == consume_token(v.lx, "Colon") IN
    IF ~r2.ok THEN Fail(r2) ELSE
    LET t == parse_type(r2.lx) IN
    IF ~t.ok THEN Fail(t) ELSE
    LET r3 == consume_token(t.lx, "Semicolon")
    IN IF ~r3.ok THEN Fail(r3) ELSE Ok(<<v.v, t.v>>, r3.lx)

\* parse_declarations reading one declaration at most
parse_declarations_loop_at_most_one(tokens, decls) ==
    IF peek(tokens) # "Let" \/ decls # <<>> THEN Ok(decls, tokens) ELSE
    LET d == parse_declaration(tokens)
    IN IF ~d.ok THEN Fail(d) ELSE Ok(Append(decls, d.v), d.lx)

RECURSIVE parse_declarations_loop(_, _)
parse_declarations_loop(tokens, decls) ==
    IF peek(tokens) # "Let" THEN Ok(decls, tokens) ELSE
    LET d == parse_declaration(tokens)
    IN IF ~d.ok THEN Fail(d) ELSE parse_declarations_loop(d.lx, Append(decls, d.v))

parse_declarations(tokens) == parse_declarations_loop(tokens, <<>>)

parse_function_block_(tokens) ==
    LET r1 == consume_token(tokens, "LBrace") IN
    IF ~r1.ok THEN Fail(r1) ELSE
    LET locals == parse_declarations(r1.lx) IN
    IF ~locals.ok THEN Fail(locals) ELSE
    LET stmts == parse_statements(locals.lx) IN
    IF ~stmts.ok THEN Fail(stmts) ELSE
    LET r2 == consume_token(stmts.lx, "RBrace")
    IN IF ~r2.ok THEN Fail(r2) ELSE Ok(<<locals.v, Block_new(stmts.v)>>, r2.lx)

parse_kind(tokens) ==
    LET t == peek(tokens) IN
    IF t \notin {"Resource", "Unrestricted"}
    THEN Err(InvalidToken(start_loc(tokens)), tokens)
    ELSE LET r == advance(tokens)
         IN IF ~r.ok THEN Fail(r) ELSE Ok(<<"Kind", t>>, r.lx)

\* a type that is one keyword
PrimitiveType(t) ==
    CASE t = "Address" -> <<"Address">> [] t = "U8" -> <<"U8">>
      [] t = "U64" -> <<"U64">> [] t = "U128" -> <<"U128">>
      [] t = "Bool" -> <<"Bool">> [] t = "Bytearray" -> <<"ByteArray">>

parse_type(tokens) ==
    LET t == peek(tokens) IN
    CASE t \in {"Address", "U8", "U64", "U128", "Bool", "Bytearray"} ->
            LET r == advance(tokens)
            IN IF ~r.ok THEN Fail(r) ELSE Ok(PrimitiveType(t), r.lx)
      [] t = "DotNameValue" ->
            LET s == parse_qualified_struct_ident(tokens) IN
            IF ~s.ok THEN Fail(s) ELSE
            LET tys == parse_type_actuals(s.lx)
            IN IF ~tys.ok THEN Fail(tys) ELSE Ok(<<"Struct", s.v, tys.v>>, tys.lx)
      [] t \in {"Amp", "AmpMut"} ->
            LET r == advance(tokens) IN
            IF ~r.ok THEN Fail(r) ELSE
            LET inner == parse_type(r.lx)
            IN IF ~inner.ok THEN Fail(inner)
               ELSE Ok(<<"Reference", t = "AmpMut", inner.v>>, inner.lx)
      [] t = "NameValue" ->
            LET n == parse_name(tokens) IN
            IF ~n.ok THEN Fail(n) ELSE
            LET tv == TypeVar_parse(n.v, n.lx)
            IN IF ~tv.ok THEN Fail(tv) ELSE Ok(<<"TypeParameter", tv.v>>, tv.lx)
      [] OTHER -> Err(InvalidToken(start_loc(tokens)), tokens)

parse_type_var(tokens) ==
    LET start == start_loc(tokens)
        n == parse_name(tokens) IN
    IF ~n.ok THEN Fail(n) ELSE
    LET tv == TypeVar_parse(n.v, n.lx)
    IN IF ~tv.ok THEN Fail(tv)
       ELSE Ok(spanned(start, previous_end_loc(tv.lx), tv.v), tv.lx)

parse_type_formal(tokens) ==
    LET type_var == parse_type_var(tokens) IN
    IF ~type_var.ok THEN Fail(type_var) ELSE
    IF peek(type_var.lx) = "Colon" THEN
        LET r == advance(type_var.lx) IN     \* consume the ":"
        IF ~r.ok THEN Fail(r) ELSE
        LET k == parse_kind(r.lx)
        IN IF ~k.ok THEN Fail(k) ELSE Ok(<<type_var.v, k.v>>, k.lx)
    ELSE Ok(<<type_var.v, <<"Kind", "All">>>>, type_var.lx)

parse_type_actuals(tokens) ==
    IF peek(tokens) = "Less" THEN
        LET r == advance(tokens) IN     \* consume the "<"
        IF ~r.ok THEN Fail(r) ELSE
        LET list == parse_comma_list(r.lx, {"Greater"}, "type", TRUE) IN
        IF ~list.ok THEN Fail(list) ELSE
        LET c == consume_token(list.lx, "Greater")
        IN IF ~c.ok THEN Fail(c) ELSE Ok(list.v, c.lx)
    ELSE Ok(<<>>, tokens)

\* parse_name_and_type_formals and parse_name_and_type_actuals differ in the
\* item of the list only
parse_name_and_types(tokens, item) ==
    LET has_types == peek(tokens) = "NameBeginTyValue"
        n == IF has_types THEN parse_name_begin_ty(tokens) ELSE parse_name(tokens) IN
    IF ~n.ok THEN Fail(n) ELSE
    IF has_types THEN
        LET list == parse_comma_list(n.lx, {"Greater"}, item, TRUE) IN
        IF ~list.ok THEN Fail(list) ELSE
        LET c == consume_token(list.lx, "Greater")
        IN IF ~c.ok THEN Fail(c) ELSE Ok(<<n.v, list.v>>, c.lx)
    ELSE Ok(<<n.v, <<>>>>, n.lx)

parse_name_and_type_formals(tokens) == parse_name_and_types(tokens, "type_formal")

parse_name_and_type_actuals(tokens) == parse_name_and_types(tokens, "type")

parse_arg_decl(tokens) ==
    LET v == parse_var(tokens) IN
    IF ~v.ok THEN Fail(v) ELSE
    LET r == consume_token(v.lx, "Colon") IN
    IF ~r.ok THEN Fail(r) ELSE
    LET t == parse_type(r.lx)
    IN IF ~t.ok THEN Fail(t) ELSE Ok(<<v.v, t.v>>, t.lx)

RECURSIVE parse_return_type_loop(_, _)
parse_return_type_loop(tokens, v) ==
    IF peek(tokens) # "Star" THEN Ok(v, tokens) ELSE
    LET r == advance(tokens) IN
    IF ~r.ok THEN Fail(r) ELSE
    LET t == parse_type(r.lx)
    IN IF ~t.ok THEN Fail(t) ELSE parse_return_type_loop(t.lx, Append(v, t.v))

parse_return_type(tokens) ==
    LET r == consume_token(tokens, "Colon") IN
    IF ~r.ok THEN Fail(r) ELSE
    LET t == parse_type(r.lx)
    IN IF ~t.ok THEN Fail(t) ELSE parse_return_type_loop(t.lx, <<t.v>>)

RECURSIVE parse_acquire_list_loop(_, _)
parse_acquire_list_loop(tokens, al) ==
    IF peek(tokens) # "Comma" THEN Ok(al, tokens) ELSE
    LET r == advance(tokens) IN
    IF ~r.ok THEN Fail(r) ELSE
    LET s == parse_struct_name(r.lx)
    IN IF ~s.ok THEN Fail(s) ELSE parse_acquire_list_loop(s.lx, Append(al, s.v))

parse_acquire_list(tokens) ==
    LET r == consume_token(tokens, "Acquires") IN
    IF ~r.ok THEN Fail(r) ELSE
    LET s == parse_struct_name(r.lx)
    IN IF ~s.ok THEN Fail(s) ELSE parse_acquire_list_loop(s.lx, <<s.v>>)

-----------------------------------------------------------------------------
(* Spec language parsing                                                   *)

spec_parse_dot_name(tokens) ==
    LET name1 == parse_name(tokens) IN
    IF ~name1.ok THEN Fail(name1) ELSE
    LET r == consume_token(name1.lx, "Period") IN
    IF ~r.ok THEN Fail(r) ELSE
    LET name2 == parse_name(r.lx)
    IN IF ~name2.ok THEN Fail(name2) ELSE Ok(<<name1.v, name2.v>>, name2.lx)

spec_parse_qualified_struct_ident(tokens) ==
    LET d == spec_parse_dot_name(tokens) IN
    IF ~d.ok THEN Fail(d) ELSE
    LET m == ModuleName_parse(d.v[1], d.lx) IN
    IF ~m.ok THEN Fail(m) ELSE
    LET n == StructName_parse(d.v[2], d.lx)
    IN IF ~n.ok THEN Fail(n) ELSE Ok(<<"QualifiedStructIdent", m.v, n.v>>, d.lx)

\* `<` qualified struct, type actuals `>` `(` storage location `)`: what follows
\* the keyword in `global<..>(..)` and `global_exists<..>(..)`
parse_global_tail(tokens) ==
    LET r1 == consume_token(tokens, "Less") IN
    IF ~r1.ok THEN Fail(r1) ELSE
    LET type_ == spec_parse_qualified_struct_ident(r1.lx) IN
    IF ~type_.ok THEN Fail(type_) ELSE
    LET type_actuals == parse_type_actuals(type_.lx) IN
    IF ~type_actuals.ok THEN Fail(type_actuals) ELSE
    LET r2 == consume_token(type_actuals.lx, "Greater") IN
    IF ~r2.ok THEN Fail(r2) ELSE
    LET r3 == consume_token(r2.lx, "LParen") IN
    IF ~r3.ok THEN Fail(r3) ELSE
    LET address == parse_storage_location(r3.lx) IN
    IF ~address.ok THEN Fail(address) ELSE
    LET r4 == consume_token(address.lx, "RParen")
    IN IF ~r4.ok THEN Fail(r4)
       ELSE Ok(<<type_.v, type_actuals.v, address.v>>, r4.lx)

\* the Tok::SpecReturn arm of parse_storage_location
parse_spec_return(tokens) ==
    LET r == advance(tokens) IN
    IF ~r.ok THEN Fail(r) ELSE
    IF peek(r.lx) = "LParen" THEN
        LET r1 == consume_token(r.lx, "LParen") IN
        IF ~r1.ok THEN Fail(r1) ELSE
        LET i == from_str(content(r1.lx), U8Max) IN
        IF ~i.ok THEN Err(Panic("unwrap: u8::from_str"), r1.lx) ELSE
        LET r2 == consume_token(r1.lx, "U64Value") IN
        IF ~r2.ok THEN Fail(r2) ELSE
        LET r3 == consume_token(r2.lx, "RParen")
        IN IF ~r3.ok THEN Fail(r3) ELSE Ok(<<"Ret", i.v>>, r3.lx)
    ELSE Ok(<<"Ret", "0">>, r.lx)     \* RET without brackets; use RET(0)

parse_storage_location_base(tokens) ==
    LET t == peek(tokens) IN
    CASE t = "SpecReturn" -> parse_spec_return(tokens)
      [] t = "TxnSender" ->
            LET r == advance(tokens)
            IN IF ~r.ok THEN Fail(r) ELSE Ok(<<"TxnSenderAddress">>, r.lx)
      [] t = "AccountAddressValue" ->
            LET a == parse_account_address(tokens)
            IN IF ~a.ok THEN Fail(a) ELSE Ok(<<"Address", a.v>>, a.lx)
      [] t = "Global" ->
            LET r == consume_token(tokens, "Global") IN
            IF ~r.ok THEN Fail(r) ELSE
            LET g == parse_global_tail(r.lx)
            IN IF ~g.ok THEN Fail(g) ELSE Ok(<<"GlobalResource">> \o g.v, g.lx)
      [] OTHER ->
            LET n == parse_name(tokens)
            IN IF ~n.ok THEN Fail(n) ELSE Ok(<<"Formal", n.v>>, n.lx)

\* the `while tokens.peek() == Tok::Period` loop of parse_storage_location
parse_storage_location_fields(tokens, base, fields) ==
    IF peek(tokens) = "Period" THEN
        LET r == advance(tokens) IN
        IF ~r.ok THEN Fail(r) ELSE
        LET f == parse_field(r.lx)
        IN IF ~f.ok THEN Fail(f)
           ELSE parse_storage_location_fields(f.lx, base, Append(fields, f.v.value))
    ELSE IF fields = <<>> THEN Ok(base, tokens)
    ELSE Ok(<<"AccessPath", base, fields>>, tokens)

parse_storage_location(tokens) ==
    LET base == parse_storage_location_base(tokens)
    IN IF ~base.ok THEN Fail(base)
       ELSE parse_storage_location_fields(base.lx, base.v, <<>>)

\* the `while tokens.peek() != Tok::RParen` loop of a spec call
parse_spec_call_args(tokens, args) ==
    IF peek(tokens) = "RParen" THEN Ok(args, tokens) ELSE
    LET exp == parse_spec_exp(tokens) IN
    IF ~exp.ok THEN Fail(exp) ELSE
    IF peek(exp.lx) # "Comma" THEN Ok(Append(args, exp.v), exp.lx) ELSE
    LET r == consume_token(exp.lx, "Comma")
    IN IF ~r.ok THEN Fail(r) ELSE parse_spec_call_args(r.lx, Append(args, exp.v))

\* `tag` storage-location: the Star and Amp arms of parse_unary_spec_exp
parse_spec_loc(tokens, tag) ==
    LET r == advance(tokens) IN
    IF ~r.ok THEN Fail(r) ELSE
    LET stloc == parse_storage_location(r.lx)
    IN IF ~stloc.ok THEN Fail(stloc) ELSE Ok(<<tag, stloc.v>>, stloc.lx)

parse_unary_spec_exp(tokens) ==
    LET t == peek(tokens) IN
    CASE t \in ValueTokens ->
            LET v == parse_copyable_val(tokens)
            IN IF ~v.ok THEN Fail(v) ELSE Ok(<<"Constant", v.v.value>>, v.lx)
      [] t = "GlobalExists" ->
            LET r == consume_token(tokens, "GlobalExists") IN
            IF ~r.ok THEN Fail(r) ELSE
            LET g == parse_global_tail(r.lx)
            IN IF ~g.ok THEN Fail(g) ELSE Ok(<<"GlobalExists">> \o g.v, g.lx)
      [] t = "Star" -> parse_spec_loc(tokens, "Dereference")
      [] t = "Amp" -> parse_spec_loc(tokens, "Reference")
      [] t = "Exclaim" ->
            LET r == advance(tokens) IN
            IF ~r.ok THEN Fail(r) ELSE
            LET exp == parse_unary_spec_exp(r.lx)
            IN IF ~exp.ok THEN Fail(exp) ELSE Ok(<<"Not", exp.v>>, exp.lx)
      [] t = "Old" ->
            LET r == advance(tokens) IN
            IF ~r.ok THEN Fail(r) ELSE
            LET r1 == consume_token(r.lx, "LParen") IN
            IF ~r1.ok THEN Fail(r1) ELSE
            LET exp == parse_spec_exp(r1.lx) IN
            IF ~exp.ok THEN Fail(exp) ELSE
            LET r2 == consume_token(exp.lx, "RParen")
            IN IF ~r2.ok THEN Fail(r2) ELSE Ok(<<"Old", exp.v>>, r2.lx)
      [] t = "NameValue" ->
            LET next == lookahead(tokens) IN
            IF ~next.ok \/ next.v # "LParen" THEN
                LET l == parse_storage_location(tokens)
                IN IF ~l.ok THEN Fail(l) ELSE Ok(<<"StorageLocation", l.v>>, l.lx)
            ELSE
                LET name == parse_name(tokens) IN
                IF ~name.ok THEN Fail(name) ELSE
                LET r1 == consume_token(name.lx, "LParen") IN
                IF ~r1.ok THEN Fail(r1) ELSE
                LET args == parse_spec_call_args(r1.lx, <<>>) IN
                IF ~args.ok THEN Fail(args) ELSE
                LET r2 == consume_token(args.lx, "RParen")
                IN IF ~r2.ok THEN Fail(r2) ELSE Ok(<<"Call", name.v, args.v>>, r2.lx)
      [] OTHER ->
            LET l == parse_storage_location(tokens)
            IN IF ~l.ok THEN Fail(l) ELSE Ok(<<"StorageLocation", l.v>>, l.lx)

\* the `match op_token` of parse_rhs_of_spec_exp ("panic": its `_` arm)
spec_binop_of_token(op_token) ==
    CASE op_token = "EqualEqual" -> "Eq" [] op_token = "ExclaimEqual" -> "Neq"
      [] op_token = "Less" -> "Lt" [] op_token = "Greater" -> "Gt"
      [] op_token = "LessEqual" -> "Le" [] op_token = "GreaterEqual" -> "Ge"
      [] op_token = "PipePipe" -> "Or" [] op_token = "AmpAmp" -> "And"
      [] op_token = "Caret" -> "Xor" [] op_token = "Pipe" -> "BitOr"
      [] op_token = "Amp" -> "BitAnd" [] op_token = "Plus" -> "Add"
      [] op_token = "Minus" -> "Sub" [] op_token = "Star" -> "Mul"
      [] op_token = "Slash" -> "Div" [] op_token = "Percent" -> "Mod"
      [] OTHER -> "panic"

\* spec_binop desugaring p ==> c to p || c, the negation lost
spec_binop_without_not(result, op_token, rhs) ==
    IF op_token = "EqualEqualGreater"
    THEN <<"Binop", result, "Or", rhs>>
    ELSE <<"Binop", result, spec_binop_of_token(op_token), rhs>>

\* what one turn of the loop of parse_rhs_of_spec_exp makes of result, op, rhs
spec_binop(result, op_token, rhs) ==
    IF op_token = "EqualEqualGreater"
    THEN <<"Binop", <<"Not", result>>, "Or", rhs>>     \* p ==> c ~~~> !p || c
    ELSE <<"Binop", result, spec_binop_of_token(op_token), rhs>>

\* the `while next_tok_prec >= min_prec` loop of parse_rhs_of_spec_exp
parse_rhs_of_spec_exp_loop(tokens, result, next_tok_prec, min_prec) ==
    IF ~(next_tok_prec >= min_prec) THEN Ok(result, tokens) ELSE
    LET op_token == peek(tokens)
        r1 == advance(tokens) IN
    IF ~r1.ok THEN Fail(r1) ELSE
    LET r2 == parse_unary_spec_exp(r1.lx) IN
    IF ~r2.ok THEN Fail(r2) ELSE
    LET this_prec == next_tok_prec
        r3 == IF this_prec < get_precedence(peek(r2.lx))
              THEN parse_rhs_of_spec_exp(r2.lx, r2.v, this_prec + 1)
              ELSE Ok(r2.v, r2.lx) IN
    IF ~r3.ok THEN Fail(r3) ELSE
    IF op_token # "EqualEqualGreater" /\ spec_binop_of_token(op_token) = "panic"
    THEN Err(Panic("Unexpected token that is not a binary operator"), r3.lx)
    ELSE parse_rhs_of_spec_exp_loop(r3.lx, spec_binop(result, op_token, r3.v),
                                    get_precedence(peek(r3.lx)), min_prec)

parse_rhs_of_spec_exp(tokens, lhs, min_prec) ==
    parse_rhs_of_spec_exp_loop(tokens, lhs, get_precedence(peek(tokens)), min_prec)

parse_spec_exp(tokens) ==
    LET lhs == parse_unary_spec_exp(tokens)
    IN IF ~lhs.ok THEN Fail(lhs) ELSE parse_rhs_of_spec_exp(lhs.lx, lhs.v, 1)

\* Tok::is_spec_directive
is_spec_directive(tok) == tok \in {"AbortsIf", "Ensures", "Requires", "SucceedsIf"}

\* A `?` inside the match leaves the function at once: the assignment
\* `tokens.spec_mode = false` after the match is not reached on that path.
\* parse_spec_condition setting spec_mode only once the keyword is consumed
parse_spec_condition_mode_after_keyword(tokens) ==
    LET tok == peek(tokens) IN
    IF tok \in {"AbortsIf", "Ensures", "Requires", "SucceedsIf"} THEN
        LET r == advance(tokens) IN
        IF ~r.ok THEN Fail(r) ELSE
        LET e == parse_spec_exp(set_spec_mode(r.lx, TRUE))
        IN IF ~e.ok THEN Fail(e)
           ELSE Ok(<<tok, e.v>>, set_spec_mode(e.lx, FALSE))
    ELSE Err(InvalidToken(start_loc(tokens)), tokens)

parse_spec_condition(tokens) ==
    LET t1 == set_spec_mode(tokens, TRUE)
        tok == peek(t1) IN
    IF tok \in {"AbortsIf", "Ensures", "Requires", "SucceedsIf"} THEN
        LET r == advance(t1) IN
        IF ~r.ok THEN Fail(r) ELSE
        LET e == parse_spec_exp(r.lx)
        IN IF ~e.ok THEN Fail(e)
           ELSE Ok(<<tok, e.v>>, set_spec_mode(e.lx, FALSE))
    ELSE Err(InvalidToken(start_loc(t1)), set_spec_mode(t1, FALSE))

parse_invariant_(tokens) ==
    LET r == consume_token(tokens, "Invariant") IN
    IF ~r.ok THEN Fail(r) ELSE
    LET modifier ==
          IF peek(r.lx) = "LBrace" THEN
              LET r1 == advance(r.lx) IN
              IF ~r1.ok THEN Fail(r1) ELSE
              LET s == parse_name(r1.lx) IN
              IF ~s.ok THEN Fail(s) ELSE
              LET r2 == consume_token(s.lx, "RBrace")
              IN IF ~r2.ok THEN Fail(r2) ELSE Ok(s.v, r2.lx)
          ELSE Ok("", r.lx) IN
    IF ~modifier.ok THEN Fail(modifier) ELSE
    LET condition == parse_spec_exp(modifier.lx)
    IN IF ~condition.ok THEN Fail(condition)
       ELSE Ok([modifier |-> modifier.v, condition |-> condition.v], condition.lx)

\* parse_invariant and parse_synthetic: spec mode is set around the inner
\* parser, whose result is looked at only after the flag is reset
parse_in_spec_mode(tokens, result) ==
    LET lx == set_spec_mode(result.lx, FALSE) IN
    IF IsPanic(result) THEN Fail(result)
    ELSE IF ~result.ok THEN Err(result.err, lx)
    ELSE Ok(spanned(start_loc(tokens), previous_end_loc(lx), result.v), lx)

parse_invariant(tokens) ==
    parse_in_spec_mode(tokens, parse_invariant_(set_spec_mode(tokens, TRUE)))

parse_synthetic_(tokens) ==
    LET r1 == consume_token(tokens, "Synthetic") IN
    IF ~r1.ok THEN Fail(r1) ELSE
    LET f == parse_field(r1.lx) IN
    IF ~f.ok THEN Fail(f) ELSE
    LET r2 == consume_token(f.lx, "Colon") IN
    IF ~r2.ok THEN Fail(r2) ELSE
    LET type_ == parse_type(r2.lx) IN
    IF ~type_.ok THEN Fail(type_) ELSE
    LET r3 == consume_token(type_.lx, "Semicolon")
    IN IF ~r3.ok THEN Fail(r3)
       ELSE Ok([name |-> Field_name(f.v.value), type_ |-> type_.v], r3.lx)

parse_synthetic(tokens) ==
    parse_in_spec_mode(tokens, parse_synthetic_(set_spec_mode(tokens, TRUE)))

-----------------------------------------------------------------------------
(* Declarations and the top level                                          *)

\* Function_::new of the AST crate
Function_new(visibility, args, ret, type_formals, acquires, specifications, body) ==
    <<"Function_",
      [visibility |-> visibility, args |-> args, return_type |-> ret,
       type_formals |-> type_formals, acquires |-> acquires,
       specifications |-> specifications, body |-> body]>>

\* the `while tokens.peek().is_spec_directive()` loop of parse_function_decl
RECURSIVE parse_specifications(_, _)
parse_specifications(tokens, specifications) ==
    IF ~is_spec_directive(peek(tokens)) THEN Ok(specifications, tokens) ELSE
    LET start == start_loc(tokens)
        cond == parse_spec_condition(tokens) IN
    IF ~cond.ok THEN Fail(cond)
    ELSE parse_specifications(
            cond.lx,
            Append(specifications, spanned(start, previous_end_loc(cond.lx), cond.v)))

\* a token that may or may not be there: (whether it was, the lexer after it)
parse_optional_token(tokens, tok) ==
    IF peek(tokens) = tok
    THEN LET r == advance(tokens) IN IF ~r.ok THEN Fail(r) ELSE Ok(TRUE, r.lx)
    ELSE Ok(FALSE, tokens)

\* the body of a function: `;` when native, a function block otherwise
\* the body of a function read as a block whether the function is native or not
parse_function_body_always_block(tokens, is_native) ==
    LET b == parse_function_block_(tokens)
    IN IF ~b.ok THEN Fail(b)
       ELSE Ok(IF is_native THEN <<"Native">> ELSE <<"Move", b.v[1], b.v[2]>>, b.lx)

parse_function_body(tokens, is_native) ==
    IF is_native THEN
        LET r == consume_token(tokens, "Semicolon")
        IN IF ~r.ok THEN Fail(r) ELSE Ok(<<"Native">>, r.lx)
    ELSE
        LET b == parse_function_block_(tokens)
        IN IF ~b.ok THEN Fail(b) ELSE Ok(<<"Move", b.v[1], b.v[2]>>, b.lx)

parse_function_decl(tokens) ==
    LET start == start_loc(tokens)
        is_native == parse_optional_token(tokens, "Native") IN
    IF ~is_native.ok THEN Fail(is_native) ELSE
    LET is_public == parse_optional_token(is_native.lx, "Public") IN
    IF ~is_public.ok THEN Fail(is_public) ELSE
    LET nt == parse_name_and_type_formals(is_public.lx) IN
    IF ~nt.ok THEN Fail(nt) ELSE
    LET r1 == consume_token(nt.lx, "LParen") IN
    IF ~r1.ok THEN Fail(r1) ELSE
    LET args == parse_comma_list(r1.lx, {"RParen"}, "arg_decl", TRUE) IN
    IF ~args.ok THEN Fail(args) ELSE
    LET r2 == consume_token(args.lx, "RParen") IN
    IF ~r2.ok THEN Fail(r2) ELSE
    LET ret == IF peek(r2.lx) = "Colon" THEN parse_return_type(r2.lx)
               ELSE Ok(<<>>, r2.lx) IN
    IF ~ret.ok THEN Fail(ret) ELSE
    LET acquires == IF peek(ret.lx) = "Acquires" THEN parse_acquire_list(ret.lx)
                    ELSE Ok(<<>>, ret.lx) IN
    IF ~acquires.ok THEN Fail(acquires) ELSE
    LET specifications == parse_specifications(acquires.lx, <<>>) IN
    IF ~specifications.ok THEN Fail(specifications) ELSE
    LET func_name == FunctionName_parse(nt.v[1], specifications.lx) IN
    IF ~func_name.ok THEN Fail(func_name) ELSE
    LET body == parse_function_body(specifications.lx, is_native.v) IN
    IF ~body.ok THEN Fail(body) ELSE
    LET func == Function_new(IF is_public.v THEN "Public" ELSE "Internal",
                             args.v, ret.v, nt.v[2], acquires.v,
                             specifications.v, body.v)
    IN Ok(<<func_name.v, spanned(start, previous_end_loc(body.lx), func)>>, body.lx)

parse_field_decl(tokens) ==
    LET f == parse_field(tokens) IN
    IF ~f.ok THEN Fail(f) ELSE
    LET r == consume_token(f.lx, "Colon") IN
    IF ~r.ok THEN Fail(r) ELSE
    LET t == parse_type(r.lx)
    IN IF ~t.ok THEN Fail(t) ELSE Ok(<<f.v, t.v>>, t.lx)

\* StructDefinition_::native and ::move_declared of the AST crate
StructDefinition_new(is_nominal_resource, name, type_formals, fields, tokens) ==
    LET n == StructName_parse(name, tokens) IN
    IF ~n.ok THEN Fail(n)
    ELSE Ok(<<"StructDefinition_",
              [is_nominal_resource |-> is_nominal_resource, name |-> n.v,
               type_formals |-> type_formals, fields |-> fields]>>, tokens)

parse_struct_decl(tokens) ==
    LET start == start_loc(tokens)
        is_native == parse_optional_token(tokens, "Native") IN
    IF ~is_native.ok THEN Fail(is_native) ELSE
    LET t == peek(is_native.lx) IN
    IF t \notin {"Struct", "Resource"}
    THEN Err(InvalidToken(start_loc(is_native.lx)), is_native.lx) ELSE
    LET is_nominal_resource == (t = "Resource")
        r1 == advance(is_native.lx) IN
    IF ~r1.ok THEN Fail(r1) ELSE
    LET nt == parse_name_and_type_formals(r1.lx) IN
    IF ~nt.ok THEN Fail(nt) ELSE
    IF is_native.v THEN
        LET r2 == consume_token(nt.lx, "Semicolon") IN
        IF ~r2.ok THEN Fail(r2) ELSE
        LET d == StructDefinition_new(is_nominal_resource, nt.v[1], nt.v[2],
                                      <<"Native">>, r2.lx)
        IN IF ~d.ok THEN Fail(d)
           ELSE Ok(spanned(start, previous_end_loc(r2.lx), d.v), r2.lx)
    ELSE
    LET r2 == consume_token(nt.lx, "LBrace") IN
    IF ~r2.ok THEN Fail(r2) ELSE
    LET fields == parse_comma_list(r2.lx, {"RBrace", "Invariant"}, "field_decl", TRUE) IN
    IF ~fields.ok THEN Fail(fields) ELSE
    LET invariants ==
          IF peek(fields.lx) = "Invariant"
          THEN parse_comma_list(fields.lx, {"RBrace"}, "invariant", TRUE)
          ELSE Ok(<<>>, fields.lx) IN
    IF ~invariants.ok THEN Fail(invariants) ELSE
    LET r3 == consume_token(invariants.lx, "RBrace") IN
    IF ~r3.ok THEN Fail(r3) ELSE
    LET d == StructDefinition_new(is_nominal_resource, nt.v[1], nt.v[2],
                                  <<"Move", fields.v, invariants.v>>, r3.lx)
    IN IF ~d.ok THEN Fail(d)
       ELSE Ok(spanned(start, previous_end_loc(r3.lx), d.v), r3.lx)

parse_qualified_module_ident(tokens) ==
    LET a == parse_account_address(tokens) IN
    IF ~a.ok THEN Fail(a) ELSE
    LET r == consume_token(a.lx, "Period") IN
    IF ~r.ok THEN Fail(r) ELSE
    LET m == parse_module_name(r.lx)
    IN IF ~m.ok THEN Fail(m) ELSE Ok(<<"QualifiedModuleIdent", m.v, a.v>>, m.lx)

parse_module_ident(tokens) ==
    IF peek(tokens) = "AccountAddressValue" THEN
        LET q == parse_qualified_module_ident(tokens)
        IN IF ~q.ok THEN Fail(q) ELSE Ok(<<"Qualified", q.v>>, q.lx)
    ELSE
    LET d == parse_dot_name(tokens) IN
    IF ~d.ok THEN Fail(d) ELSE
    LET v == split_dot(d.v, "") IN
    IF Len(v) # 2 THEN Err(Panic("assert: v.len() == 2"), d.lx) ELSE
    IF v[1] # "Transaction" THEN Err(Panic("Ident is not Transaction"), d.lx) ELSE
    LET m == ModuleName_parse(v[2], d.lx)
    IN IF ~m.ok THEN Fail(m) ELSE Ok(<<"Transaction", m.v>>, d.lx)

\* ModuleName::self_name
self_name == "Self"

parse_import_alias(tokens) ==
    LET r == consume_token(tokens, "As") IN
    IF ~r.ok THEN Fail(r) ELSE
    LET alias == parse_module_name(r.lx) IN
    IF ~alias.ok THEN Fail(alias) ELSE
    IF alias.v[2] = self_name
    THEN Err(Panic("Invalid use of reserved module alias"), alias.lx)
    ELSE Ok(alias.v, alias.lx)

parse_import_decl(tokens) ==
    LET r1 == consume_token(tokens, "Import") IN
    IF ~r1.ok THEN Fail(r1) ELSE
    LET ident == parse_module_ident(r1.lx) IN
    IF ~ident.ok THEN Fail(ident) ELSE
    LET alias == IF peek(ident.lx) = "As"
                 THEN LET a == parse_import_alias(ident.lx)
                      IN IF ~a.ok THEN Fail(a) ELSE Ok(<<"Some", a.v>>, a.lx)
                 ELSE Ok(<<"None">>, ident.lx) IN
    IF ~alias.ok THEN Fail(alias) ELSE
    LET r2 == consume_token(alias.lx, "Semicolon")
    IN IF ~r2.ok THEN Fail(r2)
       ELSE Ok(<<"ImportDefinition", ident.v, alias.v>>, r2.lx)

\* the `while tokens.peek() == Tok::Import` loop of parse_module and parse_script
RECURSIVE parse_imports(_, _)
parse_imports(tokens, imports) ==
    IF peek(tokens) # "Import" THEN Ok(imports, tokens) ELSE
    LET i == parse_import_decl(tokens)
    IN IF ~i.ok THEN Fail(i) ELSE parse_imports(i.lx, Append(imports, i.v))

\* the `while tokens.peek() == Tok::Synthetic` loop of parse_module
RECURSIVE parse_synthetics(_, _)
parse_synthetics(tokens, synthetics) ==
    IF peek(tokens) # "Synthetic" THEN Ok(synthetics, tokens) ELSE
    LET y == parse_synthetic(tokens)
    IN IF ~y.ok THEN Fail(y) ELSE parse_synthetics(y.lx, Append(synthetics, y.v))

\* is_struct_decl not looking past a leading `native`
is_struct_decl_without_lookahead(tokens) ==
    Ok(peek(tokens) \in {"Struct", "Resource"}, tokens)

is_struct_decl(tokens) ==
    IF peek(tokens) = "Native" THEN
        LET la == lookahead(tokens)
        IN IF ~la.ok THEN Fail(la) ELSE Ok(la.v \in {"Struct", "Resource"}, tokens)
    ELSE Ok(peek(tokens) \in {"Struct", "Resource"}, tokens)

\* the `while is_struct_decl(tokens)?` loop of parse_module
RECURSIVE parse_structs(_, _)
parse_structs(tokens, structs) ==
    LET is == is_struct_decl(tokens) IN
    IF ~is.ok THEN Fail(is) ELSE
    IF ~is.v THEN Ok(structs, tokens) ELSE
    LET d == parse_struct_decl(tokens)
    IN IF ~d.ok THEN Fail(d) ELSE parse_structs(d.lx, Append(structs, d.v))

RECURSIVE parse_functions(_, _)
\* the function loop of parse_module stopping at the end of the input too
parse_functions_ending_at_eof(tokens, functions) ==
    IF peek(tokens) \in {"RBrace", "EOF"} THEN Ok(functions, tokens) ELSE
    LET f == parse_function_decl(tokens)
    IN IF ~f.ok THEN Fail(f) ELSE parse_functions(f.lx, Append(functions, f.v))

\* the `while tokens.peek() != Tok::RBrace` loop of parse_module
parse_functions(tokens, functions) ==
    IF peek(tokens) = "RBrace" THEN Ok(functions, tokens) ELSE
    LET f == parse_function_decl(tokens)
    IN IF ~f.ok THEN Fail(f) ELSE parse_functions(f.lx, Append(functions, f.v))

\* ModuleDefinition::new of the AST crate
ModuleDefinition_new(name, imports, structs, functions, synthetics, tokens) ==
    LET n == ModuleName_parse(name, tokens) IN
    IF ~n.ok THEN Fail(n)
    ELSE Ok(<<"ModuleDefinition",
              [name |-> n.v, imports |-> imports, structs |-> structs,
               functions |-> functions, synthetics |-> synthetics]>>, tokens)

parse_module(tokens) ==
    LET r1 == consume_token(tokens, "Module") IN
    IF ~r1.ok THEN Fail(r1) ELSE
    LET name == parse_name(r1.lx) IN
    IF ~name.ok THEN Fail(name) ELSE
    LET r2 == consume_token(name.lx, "LBrace") IN
    IF ~r2.ok THEN Fail(r2) ELSE
    LET imports == parse_imports(r2.lx, <<>>) IN
    IF ~imports.ok THEN Fail(imports) ELSE
    LET synthetics == parse_synthetics(imports.lx, <<>>) IN
    IF ~synthetics.ok THEN Fail(synthetics) ELSE
    LET structs == parse_structs(synthetics.lx, <<>>) IN
    IF ~structs.ok THEN Fail(structs) ELSE
    LET functions == parse_functions(structs.lx, <<>>) IN
    IF ~functions.ok THEN Fail(functions) ELSE
    LET r3 == advance(functions.lx) IN     \* consume the RBrace
    IF ~r3.ok THEN Fail(r3)
    ELSE ModuleDefinition_new(name.v, imports.v, structs.v, functions.v,
                              synthetics.v, r3.lx)

\* the `while tokens.peek() == Tok::Module` loop of parse_modules
RECURSIVE parse_modules_loop(_, _)
parse_modules_loop(tokens, c) ==
    IF peek(tokens) # "Module" THEN Ok(c, tokens) ELSE
    LET m == parse_module(tokens)
    IN IF ~m.ok THEN Fail(m) ELSE parse_modules_loop(m.lx, Append(c, m.v))

parse_modules(tokens) ==
    LET r1 == consume_token(tokens, "Modules") IN
    IF ~r1.ok THEN Fail(r1) ELSE
    LET c == parse_modules_loop(r1.lx, <<>>) IN
    IF ~c.ok THEN Fail(c) ELSE
    LET r2 == consume_token(c.lx, "Script")
    IN IF ~r2.ok THEN Fail(r2) ELSE Ok(c.v, r2.lx)

\* Program::new and Script::new of the AST crate
Program_new(modules, script) == <<"Program", [modules |-> modules, script |-> script]>>
Script_new(imports, main) == <<"Script", [imports |-> imports, main |-> main]>>

parse_script(tokens) ==
    LET start == start_loc(tokens)
        imports == parse_imports(tokens, <<>>) IN
    IF ~imports.ok THEN Fail(imports) ELSE
    LET r1 == consume_token(imports.lx, "Main") IN
    IF ~r1.ok THEN Fail(r1) ELSE
    LET r2 == consume_token(r1.lx, "LParen") IN
    IF ~r2.ok THEN Fail(r2) ELSE
    LET args == parse_comma_list(r2.lx, {"RParen"}, "arg_decl", TRUE) IN
    IF ~args.ok THEN Fail(args) ELSE
    LET r3 == consume_token(args.lx, "RParen") IN
    IF ~r3.ok THEN Fail(r3) ELSE
    LET b == parse_function_block_(r3.lx) IN
    IF ~b.ok THEN Fail(b) ELSE
    LET main == Function_new("Public", args.v, <<>>, <<>>, <<>>, <<>>,
                             <<"Move", b.v[1], b.v[2]>>)
    IN Ok(Script_new(imports.v, spanned(start, previous_end_loc(b.lx), main)), b.lx)

\* a made-up script whose main has an empty body
synthesized_script_empty_body ==
    LET body == <<"Move", <<>>, Block_new(<<>>)>>
        main == Function_new("Public", <<>>, <<>>, <<>>, <<>>, <<>>, body)
    IN Script_new(<<>>, no_loc(main))

\* the script parse_program makes up for a lone module
synthesized_script ==
    LET ret == [span |-> <<0, 0>>,
                value |-> <<"Return", no_loc(<<"ExprList", <<>>>>)>>]
        return_stmt == <<"CommandStatement", ret>>
        body == <<"Move", <<>>, Block_new(<<return_stmt>>)>>
        main == Function_new("Public", <<>>, <<>>, <<>>, <<>>, <<>>, body)
    IN Script_new(<<>>, no_loc(main))

parse_program(tokens) ==
    IF peek(tokens) = "Module" THEN
        LET m == parse_module(tokens)
        IN IF ~m.ok THEN Fail(m)
           ELSE Ok(Program_new(<<m.v>>, synthesized_script), m.lx)
    ELSE
        LET modules == IF peek(tokens) = "Modules" THEN parse_modules(tokens)
                       ELSE Ok(<<>>, tokens) IN
        IF ~modules.ok THEN Fail(modules) ELSE
        LET s == parse_script(modules.lx)
        IN IF ~s.ok THEN Fail(s) ELSE Ok(Program_new(modules.v, s.v), s.lx)

parse_script_or_module(tokens) ==
    IF peek(tokens) = "Module" THEN
        LET m == parse_module(tokens)
        IN IF ~m.ok THEN Fail(m) ELSE Ok(<<"Module", m.v>>, m.lx)
    ELSE
        LET s == parse_script(tokens)
        IN IF ~s.ok THEN Fail(s) ELSE Ok(<<"Script", s.v>>, s.lx)

\* the item parser handed to parse_comma_list
parse_list_item(item, tokens) ==
    CASE item = "field_exp" -> parse_field_exp(tokens)
      [] item = "exp" -> parse_exp(tokens)
      [] item = "lvalue" -> parse_lvalue(tokens)
      [] item = "field_bindings" -> parse_field_bindings(tokens)
      [] item = "type" -> parse_type(tokens)
      [] item = "type_formal" -> parse_type_formal(tokens)
      [] item = "arg_decl" -> parse_arg_decl(tokens)
      [] item = "field_decl" -> parse_field_decl(tokens)
      [] item = "invariant" -> parse_invariant(tokens)

\* `Lexer::new(input)`, `tokens.advance()?`, then the production
primed(text) == advance(LexerNew(text))

\* parse_cmd_string refusing what does not end the input
parse_cmd_string_to_eof(text) ==
    LET r == primed(text) IN
    IF ~r.ok THEN Fail(r) ELSE
    LET c == parse_cmd_(r.lx) IN
    IF c.ok /\ peek(c.lx) # "EOF" THEN Err(InvalidToken(start_loc(c.lx)), c.lx)
    ELSE c

parse_cmd_string(text) ==
    LET r == primed(text) IN IF ~r.ok THEN Fail(r) ELSE parse_cmd_(r.lx)

parse_module_string(text) ==
    LET r == primed(text) IN IF ~r.ok THEN Fail(r) ELSE parse_module(r.lx)

parse_program_string(text) ==
    LET r == primed(text) IN IF ~r.ok THEN Fail(r) ELSE parse_program(r.lx)

parse_script_string(text) ==
    LET r == primed(text) IN IF ~r.ok THEN Fail(r) ELSE parse_script(r.lx)

parse_script_or_module_string(text) ==
    LET r == primed(text) IN IF ~r.ok THEN Fail(r) ELSE parse_script_or_module(r.lx)

-----------------------------------------------------------------------------
(* Source texts the entry points are called on                             *)

\* the most binary operators in one expression
MaxChain == 3
\* the most field bindings in one unpack
MaxBindings == 2
\* the most statements in one block
MaxStmts == 2
\* the deepest nesting of type actuals
MaxNest == 2
\* the most items in one comma list of lvalues or of returned values
MaxItems == 3
\* the most `let` declarations at the head of one function block
MaxLets == 2
\* the most struct and function declarations in one module body
MaxDecls == 3

BinaryOpTokens ==
    {"EqualEqualGreater", "PipePipe", "AmpAmp", "EqualEqual", "ExclaimEqual",
     "Less", "Greater", "LessEqual", "GreaterEqual", "Pipe", "Caret", "Amp",
     "LessLess", "GreaterGreater", "Plus", "Minus", "Star", "Slash", "Percent"}

\* the operators used in expressions of more than two operators
CoreOpTokens == {"PipePipe", "AmpAmp", "EqualEqual", "Pipe", "Plus", "Star"}

OperandNames == <<"a", "b", "c", "d", "e">>
OperandDigits == <<"1", "2", "3", "4", "5">>
OperandShapes == {"copy", "val"}

\* the i-th operand of an expression, a unary expression: copy(a) or 1
Operand(i, shape) ==
    IF shape = "copy" THEN <<P("Copy"), GN(OperandNames[i]), G("RParen")>>
    ELSE <<V("U64Value", OperandDigits[i])>>

RECURSIVE ChainTail(_, _, _)
ChainTail(ops, i, shape) ==
    IF i > Len(ops) THEN <<>>
    ELSE <<P(ops[i])>> \o Operand(i + 1, shape) \o ChainTail(ops, i + 1, shape)

\* operand op operand op ..., the first operand negated when neg
ExpText(ops, shape, neg) ==
    (IF neg THEN <<P("Exclaim")>> ELSE <<>>) \o Operand(1, shape)
        \o ChainTail(ops, 1, shape)

\* every chain of at most two operators, and longer chains of the core ones
ShortChains == UNION {[1..k -> BinaryOpTokens] : k \in 0..2}
LongChains == UNION {[1..k -> CoreOpTokens] : k \in 3..MaxChain}
OpChains == ShortChains \cup LongChains

AssignText(exp) == <<N("x"), P("Equal")>> \o exp

RECURSIVE Flatten(_)
Flatten(ss) == IF ss = <<>> THEN <<>> ELSE Head(ss) \o Flatten(Tail(ss))

\* texts with one fault: cut short, one lexeme unreadable, one lexeme missing
Prefixes(t) == {SubSeq(t, 1, n) : n \in 0..(Len(t) - 1)}
Junked(t) == {[t EXCEPT ![i] = Junk] : i \in 1..Len(t)}
Dropped(t) == {SubSeq(t, 1, i - 1) \o SubSeq(t, i + 1, Len(t)) : i \in 1..Len(t)}
Faulty(t) == Prefixes(t) \cup Junked(t) \cup Dropped(t)

\* a field binding of an unpack: `f` or `f: v`
Binding(i, short) ==
    IF short THEN <<N(OperandNames[i])>>
    ELSE <<N(OperandNames[i]), P("Colon"), N(OperandDigits[i] \o "v")>>

RECURSIVE BindingList(_, _)
BindingList(shorts, i) ==
    IF i > Len(shorts) THEN <<>>
    ELSE (IF i > 1 THEN <<P("Comma")>> ELSE <<>>) \o Binding(i, shorts[i])
            \o BindingList(shorts, i + 1)

\* S { bindings } = 1, with a trailing comma after the bindings when comma
UnpackText(shorts, comma) ==
    <<N("S"), P("LBrace")>> \o BindingList(shorts, 1)
        \o (IF comma THEN <<P("Comma")>> ELSE <<>>)
        \o <<P("RBrace"), P("Equal")>> \o Operand(1, "val")

UnpackTexts ==
    {UnpackText(shorts, comma) :
        shorts \in UNION {[1..k -> BOOLEAN] : k \in 0..MaxBindings},
        comma \in BOOLEAN}

OtherCmdTexts ==
    { <<P("Return")>>, <<P("Return"), P("Semicolon")>>,
      <<P("Return")>> \o Operand(1, "val") \o <<P("Semicolon")>>,
      <<P("Return")>> \o Operand(1, "val") \o <<P("Comma")>>
          \o Operand(2, "copy") \o <<P("Semicolon")>>,
      <<P("Abort")>>, <<P("Abort"), P("Semicolon")>>,
      <<P("Abort")>> \o Operand(1, "val") \o <<P("Semicolon")>>,
      <<P("Continue")>>, <<P("Break")>>,
      <<P("Underscore"), P("Comma"), P("Star")>> \o Operand(1, "copy")
          \o <<P("Equal")>> \o Operand(2, "val"),
      <<P("Star")>> \o Operand(1, "copy") \o <<P("Equal")>> \o Operand(2, "val"),
      <<P("LParen")>> \o Operand(1, "val") \o <<P("RParen")>>,
      <<P("GetTxnSender"), P("LParen"), P("RParen")>>,
      <<N("M"), G("Period"), GN("f"), P("LParen")>> \o Operand(1, "val")
          \o <<P("RParen")>>,
      <<P("MoveFrom"), N("S"), P("Greater"), P("LParen")>> \o Operand(1, "copy")
          \o <<P("RParen")>>,
      <<N("S"), G("Less"), N("T"), P("Greater"), P("LBrace"), N("a"), P("RBrace"),
        P("Equal")>> \o Operand(1, "val") }

\* move_from<S<u64>>(copy(a)), and the same with `> >` and with `S>>`
GenericClosers ==
    { <<G("Less"), P("U64"), G("GreaterGreater")>>,
      <<G("Less"), P("U64"), G("Greater"), P("Greater")>>,
      <<P("GreaterGreater")>> }

GenericCmdTexts ==
    {<<P("MoveFrom"), N("S")>> \o c \o <<P("LParen")>> \o Operand(1, "copy")
        \o <<P("RParen")>> : c \in GenericClosers}

\* S { a: <e> } . a, the operand of a field borrow
PackOperand(e) ==
    <<N("S"), P("LBrace"), N("a"), P("Colon")>> \o e
        \o <<P("RBrace"), P("Period"), N("a")>>

\* x = &S { a: 1 }.a and other borrows
BorrowTexts ==
    { AssignText(<<P("Amp")>> \o PackOperand(Operand(1, "val"))),
      AssignText(<<P("Amp")>> \o PackOperand(Operand(1, "copy"))),
      AssignText(<<P("AmpMut")>> \o PackOperand(Operand(1, "val"))),
      AssignText(<<P("AmpMut")>> \o PackOperand(Operand(1, "copy"))),
      AssignText(<<P("Amp")>> \o Operand(1, "copy") \o <<P("Period"), N("b")>>),
      AssignText(<<P("Amp"), N("a"), P("Semicolon")>>),
      AssignText(<<P("Amp"), N("a")>>),
      AssignText(<<P("Amp"), N("a"), Junk>>),
      AssignText(<<P("AmpMut"), N("a")>>),
      AssignText(<<P("AmpMut"), N("a"), P("Semicolon")>>),
      AssignText(<<P("Amp"), N("a"), P("Period"), N("b")>>),
      AssignText(<<P("AmpMut"), N("a"), P("Period"), N("b")>>),
      AssignText(<<P("Amp")>> \o Operand(1, "copy") \o <<P("Semicolon")>>),
      AssignText(<<P("AmpMut")>> \o Operand(1, "copy") \o <<P("Period"), N("b")>>) }

\* a name no identifier constructor accepts, and an address literal of 65
\* hex digits, one more than 32 bytes
BadName == "$n"
LongAddress == "0x" \o "11111111111111111111111111111111"
                    \o "11111111111111111111111111111111" \o "1"

\* commands with a name or an address the AST constructors reject:
\* $n = 1, $n { a } = 1, x = &$n, x = 0x111...1
BadNameCmdTexts ==
    { <<N(BadName), P("Equal")>> \o Operand(1, "val"),
      <<N(BadName), P("LBrace"), N("a"), P("RBrace"), P("Equal")>> \o Operand(1, "val"),
      AssignText(<<P("Amp"), N(BadName), P("Semicolon")>>) }
BadAddressCmdTexts ==
    { AssignText(<<V("AccountAddressValue", LongAddress)>>),
      AssignText(<<V("AccountAddressValue", LongAddress), P("Semicolon")>>) }
GoodAddressCmdTexts ==
    { AssignText(<<V("AccountAddressValue", "0x1")>>) }

\* comma lists: items[1] , items[2] , ... with a `,` after the last when comma
RECURSIVE CommaListText(_, _, _)
CommaListText(items, i, comma) ==
    IF i > Len(items) THEN (IF comma THEN <<P("Comma")>> ELSE <<>>)
    ELSE (IF i > 1 THEN <<P("Comma")>> ELSE <<>>) \o items[i]
            \o CommaListText(items, i + 1, comma)

\* a, b, ... = 1
LvalueListText(n, comma) ==
    CommaListText([i \in 1..n |-> <<N(OperandNames[i])>>], 1, comma)
        \o <<P("Equal")>> \o Operand(1, "val")

\* return 1, 2, ... ;
ReturnListText(n, comma) ==
    <<P("Return")>> \o CommaListText([i \in 1..n |-> Operand(i, "val")], 1, comma)
        \o <<P("Semicolon")>>

CommaListCmdTexts ==
    {LvalueListText(n, comma) : n \in 1..MaxItems, comma \in BOOLEAN}
    \cup {ReturnListText(n, comma) : n \in 0..MaxItems, comma \in BOOLEAN}

\* a `>>` where a comma list that does not end at `>` begins or goes on:
\* return >> 1 ;   ( >> 1 )   x >> = 1   return 1 >> 2 ;
ShiftInListTexts ==
    { <<P("Return"), P("GreaterGreater")>> \o Operand(1, "val") \o <<P("Semicolon")>>,
      <<P("LParen"), P("GreaterGreater")>> \o Operand(1, "val") \o <<P("RParen")>>,
      <<N("x"), P("GreaterGreater"), P("Equal")>> \o Operand(1, "val"),
      <<P("Return")>> \o ExpText(<<"GreaterGreater">>, "val", FALSE)
          \o <<P("Semicolon")>> }

CmdTexts ==
    {AssignText(ExpText(ops, shape, neg)) :
        ops \in ShortChains, shape \in OperandShapes, neg \in BOOLEAN}
    \cup {AssignText(ExpText(ops, "copy", neg)) : ops \in LongChains, neg \in BOOLEAN}
    \cup UnpackTexts
    \cup OtherCmdTexts
    \cup Faulty(UnpackText(<<TRUE, FALSE>>, FALSE))
    \cup Faulty(AssignText(ExpText(<<"Plus", "Star">>, "copy", TRUE)))
    \cup GenericCmdTexts
    \cup BorrowTexts
    \cup BadNameCmdTexts \cup BadAddressCmdTexts \cup GoodAddressCmdTexts
    \cup CommaListCmdTexts
    \cup ShiftInListTexts

\* statements
AssertText(c, e, semi) ==
    <<P("Assert")>> \o c \o <<P("Comma")>> \o e \o <<P("RParen")>>
        \o (IF semi THEN <<P("Semicolon")>> ELSE <<>>)

AssertConds == {Operand(1, "copy"), ExpText(<<"EqualEqual">>, "copy", FALSE),
                ExpText(<<"Less">>, "val", TRUE)}
AssertErrs == {Operand(3, "val"), ExpText(<<"Plus">>, "val", FALSE)}

AssertTexts ==
    {AssertText(c, e, semi) : c \in AssertConds, e \in AssertErrs, semi \in BOOLEAN}

SimpleStmtTexts ==
    { <<P("Semicolon")>>,
      AssignText(Operand(1, "val")) \o <<P("Semicolon")>>,
      <<P("Return"), P("Semicolon")>>,
      <<P("Return")>>,
      <<P("Loop"), P("LBrace")>> \o AssertText(Operand(1, "copy"), Operand(2, "val"), TRUE)
          \o <<P("RBrace")>>,
      <<P("If"), P("LParen")>> \o Operand(1, "copy")
          \o <<P("RParen"), P("LBrace"), P("Break"), P("Semicolon"), P("RBrace"),
               P("Else"), P("LBrace"), P("RBrace")>>,
      <<P("While"), P("LParen")>> \o Operand(1, "copy")
          \o <<P("RParen"), P("LBrace"), P("Continue"), P("Semicolon"), P("RBrace")>> }

StmtTexts == AssertTexts \cup SimpleStmtTexts

\* the statements that statement lists are made of
ListStmtTexts ==
    { AssertText(Operand(1, "copy"), Operand(2, "val"), TRUE),
      AssertText(Operand(1, "copy"), Operand(2, "val"), FALSE),
      <<P("Semicolon")>>,
      <<P("Return"), P("Semicolon")>>,
      <<P("Loop"), P("LBrace")>> \o AssertText(Operand(1, "copy"), Operand(2, "val"), TRUE)
          \o <<P("RBrace")>> }

StmtLists ==
    [1..1 -> StmtTexts] \cup UNION {[1..k -> ListStmtTexts] : k \in 0..MaxStmts}

\* main() { statements }
ScriptText(stmts) ==
    <<P("Main"), P("LParen"), P("RParen"), P("LBrace")>> \o Flatten(stmts)
        \o <<P("RBrace")>>

LetText == <<P("Let"), N("x"), P("Colon"), P("U64"), P("Semicolon")>>

\* let a: u64; let b: u64; ...
LetTextOf(i) == <<P("Let"), N(OperandNames[i]), P("Colon"), P("U64"), P("Semicolon")>>
Lets(k) == [i \in 1..k |-> LetTextOf(i)]

\* main() { k declarations, the statements, and when late one more `let` }
DeclBlockText(k, stmts, late) ==
    ScriptText(Lets(k) \o stmts \o (IF late THEN <<LetTextOf(k + 1)>> ELSE <<>>))

\* main() { loop { let a: u64; } }
LetInLoopText ==
    ScriptText(<< <<P("Loop"), P("LBrace")>> \o LetTextOf(1) \o <<P("RBrace")>> >>)

DeclBlockTexts ==
    {DeclBlockText(k, stmts, late) :
        k \in 0..MaxLets, stmts \in [1..1 -> SimpleStmtTexts] \cup {<<>>},
        late \in BOOLEAN}
    \cup {LetInLoopText}

\* import Transaction.A; import Transaction.B as C;
ImportsText ==
    <<P("Import"), N("Transaction"), G("Period"), GN("A"), P("Semicolon"),
      P("Import"), N("Transaction"), G("Period"), GN("B"), P("As"), N("C"),
      P("Semicolon")>>

\* import Transaction.A; import Transaction.B as C; main() { return; }
LoopScriptText == ImportsText \o ScriptText(<< <<P("Return"), P("Semicolon")>> >>)

\* main() { let a: u64; let b: u64; a = 1 + 2 * 3; loop { break; } }
LoopBodyText ==
    ScriptText(Lets(2)
        \o << <<N("a"), P("Equal"), V("U64Value", "1"), P("Plus"), V("U64Value", "2"),
                P("Star"), V("U64Value", "3"), P("Semicolon")>>,
              <<P("Loop"), P("LBrace"), P("Break"), P("Semicolon"), P("RBrace")>> >>)

LoopScriptTexts == {LoopScriptText, LoopBodyText}

ScriptTexts ==
    {ScriptText(stmts) : stmts \in StmtLists}
    \cup {ScriptText(<<LetText>> \o stmts) : stmts \in [1..1 -> SimpleStmtTexts]}
    \cup DeclBlockTexts
    \cup LoopScriptTexts \cup UNION {Faulty(t) : t \in LoopScriptTexts}
    \cup Faulty(ScriptText(<<AssertText(Operand(1, "copy"), Operand(2, "val"), TRUE)>>))

\* types and struct declarations
RECURSIVE Closers(_)
Closers(n) ==
    IF n = 0 THEN <<>>
    ELSE IF n = 1 THEN <<G("Greater")>>
    ELSE <<G("GreaterGreater")>> \o Closers(n - 2)

RECURSIVE Openers(_, _)
Openers(n, qualified) ==
    IF n = 0 THEN <<>>
    ELSE (IF qualified THEN <<N("V"), G("Period"), GN("vector"), G("Less")>>
          ELSE <<N("vector"), G("Less")>>) \o Openers(n - 1, qualified)

\* V.vector<V.vector<..T..>> (or vector<vector<..T..>>), n deep, the closing
\* brackets written without blanks when fused
TypeText(n, qualified, fused) ==
    Openers(n, qualified) \o <<N("T")>>
        \o (IF fused THEN Closers(n) ELSE [i \in 1..n |-> P("Greater")])

\* struct S<T> { v: type }
StructText(type) ==
    <<P("Struct"), N("S"), G("Less"), N("T"), P("Greater"), P("LBrace"),
      N("v"), P("Colon")>> \o type \o <<P("RBrace")>>

ModuleText(body) == <<P("Module"), N("M"), P("LBrace")>> \o body \o <<P("RBrace")>>

StructModuleTexts ==
    {ModuleText(StructText(TypeText(n, qualified, fused))) :
        n \in 0..MaxNest, qualified \in BOOLEAN, fused \in BOOLEAN}

\* spec expressions: a op b op ..., over the formals a, b, c
RECURSIVE SpecChainTail(_, _)
SpecChainTail(ops, i) ==
    IF i > Len(ops) THEN <<>>
    ELSE <<P(ops[i]), N(OperandNames[i + 1])>> \o SpecChainTail(ops, i + 1)

SpecExpText(ops) == <<N(OperandNames[1])>> \o SpecChainTail(ops, 1)

SpecKeywords == {"Ensures", "Requires", "AbortsIf", "SucceedsIf"}

\* f() clause* { }
FunText(clauses) ==
    <<N("f"), P("LParen"), P("RParen")>> \o Flatten(clauses)
        \o <<P("LBrace"), P("RBrace")>>

ClauseText(kw, ops) == <<P(kw)>> \o SpecExpText(ops)

SpecModuleTexts ==
    {ModuleText(FunText(<<ClauseText("Ensures", ops)>>)) : ops \in OpChains}
    \cup {ModuleText(FunText(<<ClauseText(kw, <<"EqualEqual">>)>>)) : kw \in SpecKeywords}
    \cup {ModuleText(FunText(<<ClauseText("Ensures", <<"EqualEqualGreater", op2, op3>>)>>)) :
            op2 \in CoreOpTokens, op3 \in CoreOpTokens}
    \cup {ModuleText(FunText(<<ClauseText("Requires", <<>>),
                               ClauseText("Ensures", <<"EqualEqualGreater">>)>>))}

\* module M { synthetic x: u64; struct S { f: u64, invariant a == b } }
InvariantModuleText ==
    ModuleText(<<P("Synthetic"), N("y"), P("Colon"), P("U64"), P("Semicolon"),
                 P("Struct"), N("S"), P("LBrace"), N("f"), P("Colon"), P("U64"),
                 P("Comma"), P("Invariant"), N("a"), P("EqualEqual"), N("b"),
                 P("RBrace")>>)

\* module M { native struct R; native public g(): u64; public f(x: u64) { return; } }
DeclModuleText ==
    ModuleText(<<P("Native"), P("Resource"), N("R"), P("Semicolon"),
                 P("Native"), P("Public"), N("g"), P("LParen"), P("RParen"),
                 P("Colon"), P("U64"), P("Semicolon"),
                 P("Public"), N("f"), P("LParen"), N("x"), P("Colon"), P("U64"),
                 P("RParen"), P("LBrace"), P("Return"), P("Semicolon"),
                 P("RBrace")>>)

\* modules with a name the AST constructors reject: module $n { },
\* module M { $n() { } }, module M { struct $n { } },
\* module M { struct S<$n> { } }
BadNameModuleTexts ==
    { <<P("Module"), N(BadName), P("LBrace"), P("RBrace")>>,
      ModuleText(<<N(BadName), P("LParen"), P("RParen"), P("LBrace"), P("RBrace")>>),
      ModuleText(<<P("Struct"), N(BadName), P("LBrace"), P("RBrace")>>),
      ModuleText(<<P("Struct"), N("S"), G("Less"), N(BadName), P("Greater"),
                   P("LBrace"), P("RBrace")>>) }

\* the declarations of a module body, the i-th being named OperandNames[i]:
\* struct a { }   resource a { }   native struct a ;   a ( ) { }   native a ( ) ;
StructKinds == {"struct", "resource", "native_struct"}
FunKinds == {"fun", "native_fun"}
DeclKinds == StructKinds \cup FunKinds

DeclText(kind, i) ==
    CASE kind = "struct" -> <<P("Struct"), N(OperandNames[i]), P("LBrace"), P("RBrace")>>
      [] kind = "resource" ->
            <<P("Resource"), N(OperandNames[i]), P("LBrace"), P("RBrace")>>
      [] kind = "native_struct" ->
            <<P("Native"), P("Struct"), N(OperandNames[i]), P("Semicolon")>>
      [] kind = "fun" ->
            <<N(OperandNames[i]), P("LParen"), P("RParen"), P("LBrace"), P("RBrace")>>
      [] kind = "native_fun" ->
            <<P("Native"), N(OperandNames[i]), P("LParen"), P("RParen"), P("Semicolon")>>

DeclLists == UNION {[1..k -> DeclKinds] : k \in 0..MaxDecls}

\* module M { declarations }
ModuleBodyText(kinds) == ModuleText(Flatten([i \in DOMAIN kinds |-> DeclText(kinds[i], i)]))

ModuleBodyTexts == {ModuleBodyText(kinds) : kinds \in DeclLists}

\* module M { [native] [public] f() [: u64] [acquires T] <body> }, the body
\* being `{ }` or `;`
FunDeclText(native, public, ret, acq, body) ==
    ModuleText((IF native THEN <<P("Native")>> ELSE <<>>)
        \o (IF public THEN <<P("Public")>> ELSE <<>>)
        \o <<N("f"), P("LParen"), P("RParen")>>
        \o (IF ret THEN <<P("Colon"), P("U64")>> ELSE <<>>)
        \o (IF acq THEN <<P("Acquires"), N("T")>> ELSE <<>>)
        \o (IF body = "block" THEN <<P("LBrace"), P("RBrace")>> ELSE <<P("Semicolon")>>))

FunBodies == {"block", "semi"}

FunDeclTexts ==
    {FunDeclText(native, public, ret, acq, body) :
        native \in BOOLEAN, public \in BOOLEAN, ret \in BOOLEAN, acq \in BOOLEAN,
        body \in FunBodies}

\* modules that between them go more than once round every loop of the
\* module parser:
\* module M { import Transaction.A; import Transaction.B as C;
\*            synthetic y: u64; synthetic z: u64; }
ImportsModuleText ==
    ModuleText(ImportsText
        \o <<P("Synthetic"), N("y"), P("Colon"), P("U64"), P("Semicolon"),
             P("Synthetic"), N("z"), P("Colon"), P("U64"), P("Semicolon")>>)

\* module M { g(a: u64, b: u64): u64 * u64 acquires S, R { } }
SignatureModuleText ==
    ModuleText(<<N("g"), P("LParen"), N("a"), P("Colon"), P("U64"), P("Comma"),
                 N("b"), P("Colon"), P("U64"), P("RParen"),
                 P("Colon"), P("U64"), P("Star"), P("U64"),
                 P("Acquires"), N("S"), P("Comma"), N("R"),
                 P("LBrace"), P("RBrace")>>)

\* module M { f() requires p(a, b.c.d) ensures RET(1) == a { } }
SpecLoopsModuleText ==
    ModuleText(<<N("f"), P("LParen"), P("RParen"),
                 P("Requires"), N("p"), P("LParen"), N("a"), P("Comma"),
                 N("b"), P("Period"), N("c"), P("Period"), N("d"), P("RParen"),
                 P("Ensures"), P("SpecReturn"), P("LParen"), V("U64Value", "1"),
                 P("RParen"), P("EqualEqual"), N("a"),
                 P("LBrace"), P("RBrace")>>)

LoopModuleTexts ==
    {ImportsModuleText, SignatureModuleText, SpecLoopsModuleText,
     ModuleBodyText(<<"struct", "native_struct", "fun">>)}

\* module M { [synthetic y: u64;] f<T>() { } }
GenericFunText(synthetic) ==
    ModuleText((IF synthetic
                THEN <<P("Synthetic"), N("y"), P("Colon"), P("U64"), P("Semicolon")>>
                ELSE <<>>)
        \o <<N("f"), G("Less"), N("T"), P("Greater"), P("LParen"), P("RParen"),
             P("LBrace"), P("RBrace")>>)

\* what may follow RET: nothing, an index in brackets, or something else
RetArgs ==
    {<<>>,
     <<P("LParen"), V("U64Value", "1"), P("RParen")>>,
     <<P("LParen"), V("U64Value", "255"), P("RParen")>>,
     <<P("LParen"), V("U64Value", "256"), P("RParen")>>,
     <<P("LParen"), V("U64Value", "1u64"), P("RParen")>>,
     <<P("LParen"), N("a"), P("RParen")>>,
     <<P("LParen"), P("RParen")>>}

\* module M { f() ensures RET arg == a { } }
RetText(arg) ==
    ModuleText(FunText(<< <<P("Ensures"), P("SpecReturn")>> \o arg
                            \o <<P("EqualEqual"), N("a")>> >>))

ModuleTexts ==
    StructModuleTexts \cup SpecModuleTexts
    \cup {ModuleText(<<>>), InvariantModuleText, DeclModuleText}
    \cup Faulty(ModuleText(FunText(<<ClauseText("Ensures", <<"AmpAmp">>)>>)))
    \cup Faulty(InvariantModuleText)
    \cup Faulty(DeclModuleText)
    \cup BadNameModuleTexts
    \cup ModuleBodyTexts
    \cup FunDeclTexts
    \cup LoopModuleTexts \cup UNION {Faulty(t) : t \in LoopModuleTexts}
    \cup {GenericFunText(synthetic) : synthetic \in BOOLEAN}
    \cup {RetText(arg) : arg \in RetArgs}

\* what may follow a production in the text
Trailers == {<<>>, <<P("RBrace")>>, <<P("Main")>>, <<Junk>>,
             ModuleText(<<>>)}

ProgramTexts ==
    {m \o t : m \in {ModuleText(<<>>), DeclModuleText, InvariantModuleText,
                     ModuleText(FunText(<<ClauseText("Ensures", <<"AmpAmp">>)>>))},
              t \in Trailers}
    \cup {ScriptText(stmts) : stmts \in [1..1 -> StmtTexts]}
    \cup {<<P("Modules")>> \o Flatten(ms) \o <<P("Script")>> \o ScriptText(<<>>) :
            ms \in UNION {[1..k -> {ModuleText(<<>>), DeclModuleText}] : k \in 0..2}}
    \cup Faulty(<<P("Modules")>> \o ModuleText(<<>>) \o <<P("Script")>>
                    \o ScriptText(<<>>))
    \cup Faulty(ModuleText(FunText(<<ClauseText("Ensures", <<"AmpAmp">>)>>)))

ScriptOrModuleTexts ==
    {ModuleText(<<>>), DeclModuleText, InvariantModuleText, ScriptText(<<>>)}
    \cup {ScriptText(stmts) : stmts \in [1..1 -> StmtTexts]}
    \cup Faulty(ModuleText(FunText(<<ClauseText("Requires", <<"PipePipe">>)>>)))
    \cup Faulty(ScriptText(<<LetText>>))

\* whole productions of the entry points, each with what its AST is: the
\* variant or struct, and the number of its parts
Productions ==
    { [entry |-> "parse_cmd_string", text |-> AssignText(Operand(1, "val")),
       ast |-> <<"Assign", 1>>],
      [entry |-> "parse_cmd_string", text |-> UnpackText(<<TRUE>>, FALSE),
       ast |-> <<"Unpack", 1>>],
      [entry |-> "parse_module_string", text |-> ModuleText(<<>>),
       ast |-> <<"ModuleDefinition", 0>>],
      [entry |-> "parse_module_string", text |-> DeclModuleText,
       ast |-> <<"ModuleDefinition", 2>>],
      [entry |-> "parse_program_string", text |-> ScriptText(<<>>),
       ast |-> <<"Program", 0>>],
      [entry |-> "parse_program_string", text |-> DeclModuleText,
       ast |-> <<"Program", 1>>],
      [entry |-> "parse_script_string", text |-> ScriptText(<<>>),
       ast |-> <<"Script", 0>>],
      [entry |-> "parse_script_string",
       text |-> ScriptText(<< <<P("Return"), P("Semicolon")>> >>),
       ast |-> <<"Script", 1>>],
      [entry |-> "parse_script_or_module_string", text |-> ScriptText(<<>>),
       ast |-> <<"Script", 0>>],
      [entry |-> "parse_script_or_module_string", text |-> DeclModuleText,
       ast |-> <<"Module", 2>>] }

\* the productions of an entry point followed by something else
TrailedTexts(name) ==
    {p.text \o t : p \in {q \in Productions : q.entry = name}, t \in Trailers}

-----------------------------------------------------------------------------
(* The state machine: one call of one entry point                          *)

Init ==
    /\ entry = "none"
    /\ input = <<>>
    /\ outcome = Ok(<<>>, LexerNew(<<>>))

\* An action is one call of an entry point: its parameters are the source
\* text the entry point is called on and the value the call returns.
call(parse_string(_), text) == parse_string(text)

ParseCmdString(text, result) ==
    /\ entry = "none"
    /\ entry' = "parse_cmd_string"
    /\ input' = text
    /\ outcome' = result

ParseModuleString(text, result) ==
    /\ entry = "none"
    /\ entry' = "parse_module_string"
    /\ input' = text
    /\ outcome' = result

ParseProgramString(text, result) ==
    /\ entry = "none"
    /\ entry' = "parse_program_string"
    /\ input' = text
    /\ outcome' = result

ParseScriptString(text, result) ==
    /\ entry = "none"
    /\ entry' = "parse_script_string"
    /\ input' = text
    /\ outcome' = result

ParseScriptOrModuleString(text, result) ==
    /\ entry = "none"
    /\ entry' = "parse_script_or_module_string"
    /\ input' = text
    /\ outcome' = result

Next ==
    \/ \E text \in CmdTexts \cup TrailedTexts("parse_cmd_string") :
          ParseCmdString(text, call(parse_cmd_string, text))
    \/ \E text \in ModuleTexts \cup TrailedTexts("parse_module_string") :
          ParseModuleString(text, call(parse_module_string, text))
    \/ \E text \in ProgramTexts \cup TrailedTexts("parse_program_string") :
          ParseProgramString(text, call(parse_program_string, text))
    \/ \E text \in ScriptTexts \cup TrailedTexts("parse_script_string") :
          ParseScriptString(text, call(parse_script_string, text))
    \/ \E text \in ScriptOrModuleTexts \cup TrailedTexts("parse_script_or_module_string") :
          ParseScriptOrModuleString(text, call(parse_script_or_module_string, text))

Spec == Init /\ [][Next]_vars

-----------------------------------------------------------------------------
(* Properties                                                              *)

\* an expression without its spans
RECURSIVE Erase(_)
Erase(e) ==
    LET v == e.value IN
    CASE v[1] = "BinopExp" -> <<"BinopExp", Erase(v[2]), v[3], Erase(v[4])>>
      [] v[1] = "UnaryExp" -> <<"UnaryExp", v[2], Erase(v[3])>>
      [] v[1] \in {"Copy", "Move", "Value"} -> <<v[1], v[2].value>>
      [] OTHER -> v

\* the i-th operand as a tree without spans
OperandAst(i, shape) ==
    IF shape = "copy" THEN <<"Copy", <<"Var_", OperandNames[i]>>>>
    ELSE <<"Value", <<"U64", OperandDigits[i]>>>>

Bin(l, op_token, r) == <<"BinopExp", l, binop_of_token(op_token), r>>

\* the call of `name` on `text` has returned Ok
ReturnedOk(name, text) == entry = name /\ input = text /\ outcome.ok

\* C1 (as stated): at every return of an entry point, Ok or Err, the lexer's
\* spec_mode flag is false.
C1_SpecModeFalseAtReturn ==
    (entry # "none" /\ Returned(outcome)) => outcome.lx.spec_mode = FALSE

\* module M { f() ensures && b { } }: the clause's expression fails
C1_FailingText ==
    ModuleText(<<N("f"), P("LParen"), P("RParen"), P("Ensures"), P("AmpAmp"),
                 N("b"), P("LBrace"), P("RBrace")>>)

\* parse_module_string returns Err from inside an ensures clause with
\* spec_mode still set
C1_ErrInsideClause ==
    /\ entry = "parse_module_string"
    /\ input = C1_FailingText
    /\ ~outcome.ok
    /\ outcome.err = InvalidToken(26)
    /\ outcome.lx.spec_mode = TRUE

\* a op1 b op2 c, for every pair of binary operators other than ==>
C2_Cases ==
    {[text |-> AssignText(ExpText(<<op1, op2>>, shape, FALSE)),
      tree |-> IF get_precedence(op1) >= get_precedence(op2)
               THEN Bin(Bin(OperandAst(1, shape), op1, OperandAst(2, shape)),
                        op2, OperandAst(3, shape))
               ELSE Bin(OperandAst(1, shape), op1,
                        Bin(OperandAst(2, shape), op2, OperandAst(3, shape)))] :
        op1 \in BinaryOpTokens \ {"EqualEqualGreater"},
        op2 \in BinaryOpTokens \ {"EqualEqualGreater"},
        shape \in OperandShapes}

\* C2: parse_exp on `a op1 b op2 c` (op1, op2 binary operators other than
\* ==>) yields (a op1 b) op2 c when prec(op1) >= prec(op2), and
\* a op1 (b op2 c) otherwise, prec being get_precedence.
C2_PrecedenceClimbing ==
    \A c \in C2_Cases :
        (entry = "parse_cmd_string" /\ input = c.text)
            => /\ outcome.ok
               /\ outcome.v[1] = "Assign"
               /\ Erase(outcome.v[3]) = c.tree

\* x = copy(a) + copy(b) * copy(c) has been parsed to a + (b * c)
C2_Witness ==
    /\ ReturnedOk("parse_cmd_string",
                  AssignText(ExpText(<<"Plus", "Star">>, "copy", FALSE)))
    /\ Erase(outcome.v[3]) =
          Bin(OperandAst(1, "copy"), "Plus",
              Bin(OperandAst(2, "copy"), "Star", OperandAst(3, "copy")))

\* the i-th formal of a spec expression as a tree
SpecOperandAst(i) == <<"StorageLocation", <<"Formal", OperandNames[i]>>>>

SpecBin(l, op_token, r) == <<"Binop", l, spec_binop_of_token(op_token), r>>
Implies(l, r) == <<"Binop", <<"Not", l>>, "Or", r>>

\* module M { f() ensures <spec expression> { } }
EnsuresText(ops) == ModuleText(FunText(<<ClauseText("Ensures", ops)>>))

\* the first condition of the first function of the module returned
FirstCondition == outcome.v[2].functions[1][2].value[2].specifications[1].value

\* C3 (as stated): parse_spec_exp on `a ==> b ==> c` yields the desugaring of
\* a ==> (b ==> c), that is Not(a) || (Not(b) || c).
C3_ImplicationRightAssociative ==
    (entry = "parse_module_string"
       /\ input = EnsuresText(<<"EqualEqualGreater", "EqualEqualGreater">>))
        => /\ outcome.ok
           /\ FirstCondition =
                <<"Ensures", Implies(SpecOperandAst(1),
                                     Implies(SpecOperandAst(2), SpecOperandAst(3)))>>

\* `ensures a ==> b ==> c` has been parsed to the desugaring of (a ==> b) ==> c
C3_ParsedLeftAssociative ==
    /\ ReturnedOk("parse_module_string",
                  EnsuresText(<<"EqualEqualGreater", "EqualEqualGreater">>))
    /\ FirstCondition =
          <<"Ensures", Implies(Implies(SpecOperandAst(1), SpecOperandAst(2)),
                               SpecOperandAst(3))>>

\* the binary operators a spec expression can be built with, other than ==>
SpecOpTokens == BinaryOpTokens \ {"EqualEqualGreater", "LessLess", "GreaterGreater"}

\* b op2 c op3 d as the precedences group it
SpecSuffixAst(op2, op3) ==
    IF get_precedence(op2) >= get_precedence(op3)
    THEN SpecBin(SpecBin(SpecOperandAst(2), op2, SpecOperandAst(3)), op3,
                 SpecOperandAst(4))
    ELSE SpecBin(SpecOperandAst(2), op2,
                 SpecBin(SpecOperandAst(3), op3, SpecOperandAst(4)))

\* C4: for an `ensures a ==> b && c` clause parse_spec_condition yields
\* Ensures(Binop(Not(a), Or, Binop(b, And, c))); so it does for every operator
\* of a spec expression in the place of `&&`, and for a run of two of them:
\* the right-hand side of ==> is the whole run of operators that follows.
C4_ImplicationTakesHigherSuffix ==
    /\ \A op \in SpecOpTokens :
          (entry = "parse_module_string"
             /\ input = EnsuresText(<<"EqualEqualGreater", op>>))
              => /\ outcome.ok
                 /\ FirstCondition =
                      <<"Ensures",
                        Implies(SpecOperandAst(1),
                                SpecBin(SpecOperandAst(2), op, SpecOperandAst(3)))>>
    /\ \A op2 \in CoreOpTokens, op3 \in CoreOpTokens :
          (entry = "parse_module_string"
             /\ input = EnsuresText(<<"EqualEqualGreater", op2, op3>>))
              => /\ outcome.ok
                 /\ FirstCondition =
                      <<"Ensures", Implies(SpecOperandAst(1), SpecSuffixAst(op2, op3))>>

\* `ensures a ==> b && c` has been parsed to Not(a) || (b && c)
C4_Witness ==
    /\ ReturnedOk("parse_module_string", EnsuresText(<<"EqualEqualGreater", "AmpAmp">>))
    /\ FirstCondition =
          <<"Ensures", <<"Binop", <<"Not", SpecOperandAst(1)>>, "Or",
                         <<"Binop", SpecOperandAst(2), "And", SpecOperandAst(3)>>>>>>

\* x = !copy(a) && copy(b) | copy(c) == copy(d)
C5_Text == AssignText(ExpText(<<"AmpAmp", "Pipe", "EqualEqual">>, "copy", TRUE))

C5_NotA == <<"UnaryExp", "Not", OperandAst(1, "copy")>>

\* C5 (as stated): parse_exp on `!a && b | c == d` yields
\* (!a) && (b | (c == d)).
C5_ComparisonGroupedFirst ==
    (entry = "parse_cmd_string" /\ input = C5_Text)
        => /\ outcome.ok
           /\ Erase(outcome.v[3]) =
                Bin(C5_NotA, "AmpAmp",
                    Bin(OperandAst(2, "copy"), "Pipe",
                        Bin(OperandAst(3, "copy"), "EqualEqual", OperandAst(4, "copy"))))

\* C5 (amended): parse_exp on `!a && b | c == d` yields
\* (!a) && ((b | c) == d): the `!` binds only to a, and within the right
\* operand of `&&` the `|` (precedence 5) is grouped before the `==`
\* (precedence 4).
C5_BitOrGroupedFirst ==
    (entry = "parse_cmd_string" /\ input = C5_Text)
        => /\ outcome.ok
           /\ Erase(outcome.v[3]) =
                Bin(C5_NotA, "AmpAmp",
                    Bin(Bin(OperandAst(2, "copy"), "Pipe", OperandAst(3, "copy")),
                        "EqualEqual", OperandAst(4, "copy")))

\* `x = !a && b | c == d` has been parsed, the negation applied to a alone
C5_Witness ==
    /\ ReturnedOk("parse_cmd_string", C5_Text)
    /\ outcome.v[3].value[1] = "BinopExp"
    /\ outcome.v[3].value[3] = "And"
    /\ Erase(outcome.v[3].value[2]) = C5_NotA

\* V.vector<V.vector<..T..>>, n deep, as a type
RECURSIVE VectorType(_)
VectorType(n) ==
    IF n = 0 THEN <<"TypeParameter", <<"TypeVar_", "T">>>>
    ELSE <<"Struct",
           <<"QualifiedStructIdent", <<"ModuleName", "V">>, <<"StructName", "vector">>>>,
           <<VectorType(n - 1)>>>>

\* the structs of the module returned, and the fields of the first of them
Structs == outcome.v[2].structs
FirstStructFields == Structs[1].value[2].fields[2]

\* how many times the parse has split a `>>` (replace_token)
Splits ==
    Cardinality({i \in DOMAIN outcome.lx.log : outcome.lx.log[i].op = "replace_token"})

\* the offset of the field's type in module M { struct S<T> { v: <type> } }
C6_TypeStart == AtomStart(input, 12)

\* C6 (as stated): parse_module_string on
\* `module M { struct S<T> { v: vector<vector<T>> } }` succeeds, the only
\* field of the struct has type Struct(vector, [Struct(vector,
\* [TypeParameter T])]), and exactly one `>>` is split.
C6_BareVectorParses ==
    (entry = "parse_module_string"
       /\ input = ModuleText(StructText(TypeText(2, FALSE, TRUE))))
        => /\ outcome.ok
           /\ Len(Structs) = 1
           /\ Len(FirstStructFields) = 1
           /\ FirstStructFields[1][2][1] = "Struct"
           /\ Splits = 1

\* C6 (amended): on `module M { struct S<T> { v: vector<vector<T>> } }`
\* parse_module_string returns Err(InvalidToken) at the offset of `vector<`
\* (parse_type has no arm for a name fused with `<`) and splits no `>>`.
\* With the struct type qualified, `v: V.vector<V.vector<T>>`, it succeeds,
\* the module has one struct whose only field has type
\* Struct(V.vector, [Struct(V.vector, [TypeParameter T])]), and exactly one
\* `>>` is split; nested n deep, one split is made for each `>>` lexeme, and
\* none when the closing brackets are written apart.
C6_QualifiedVectorParses ==
    /\ \A n \in 0..MaxNest, fused \in BOOLEAN :
          (entry = "parse_module_string"
             /\ input = ModuleText(StructText(TypeText(n, TRUE, fused))))
              => /\ outcome.ok
                 /\ Len(Structs) = 1
                 /\ Len(FirstStructFields) = 1
                 /\ FirstStructFields[1][1].value = <<"Field_", "v">>
                 /\ FirstStructFields[1][2] = VectorType(n)
                 /\ Splits = IF fused THEN n \div 2 ELSE 0
    /\ \A n \in 1..MaxNest, fused \in BOOLEAN :
          (entry = "parse_module_string"
             /\ input = ModuleText(StructText(TypeText(n, FALSE, fused))))
              => /\ ~outcome.ok
                 /\ outcome.err = InvalidToken(C6_TypeStart)
                 /\ peek(outcome.lx) = "NameBeginTyValue"
                 /\ Splits = 0

\* `v: V.vector<V.vector<T>>` has been parsed with one `>>` split
C6_Witness ==
    /\ ReturnedOk("parse_module_string", ModuleText(StructText(TypeText(2, TRUE, TRUE))))
    /\ FirstStructFields[1][2] = VectorType(2)
    /\ Splits = 1

\* the statements of main in the script returned
MainStatements == outcome.v[2].main.value[2].body[3][2]

\* conditions and error codes of an assert, as texts and as trees
C7_Conds ==
    { [text |-> Operand(1, "copy"), tree |-> OperandAst(1, "copy")],
      [text |-> ExpText(<<"EqualEqual">>, "copy", FALSE),
       tree |-> Bin(OperandAst(1, "copy"), "EqualEqual", OperandAst(2, "copy"))],
      [text |-> ExpText(<<"Less">>, "val", TRUE),
       tree |-> Bin(<<"UnaryExp", "Not", OperandAst(1, "val")>>, "Less",
                    OperandAst(2, "val"))] }
C7_Errs ==
    { [text |-> Operand(3, "val"), tree |-> OperandAst(3, "val")],
      [text |-> ExpText(<<"Plus">>, "val", FALSE),
       tree |-> Bin(OperandAst(1, "val"), "Plus", OperandAst(2, "val"))] }

\* the span of atoms first..last of the input
AtomSpan(first, last) == <<AtomStart(input, first), AtomEnd(input, last)>>

\* C7: parse_statement on `assert(c, e)` (here the first statement of
\* main() { assert(c, e) }, with or without a `;` after it) yields an
\* IfElseStatement with no else-block whose condition is UnaryExp(Not, c)
\* with the span of c, and whose then-block holds exactly one statement, the
\* command Abort(Some(e)); the abort command and the then-block have the
\* span of e.
C7_AssertDesugared ==
    \A c \in C7_Conds, e \in C7_Errs, semi \in BOOLEAN :
        (entry = "parse_script_string"
           /\ input = ScriptText(<<AssertText(c.text, e.text, semi)>>))
            => /\ outcome.ok
               /\ LET stmt == MainStatements[1]
                      cond == stmt[2][2]
                      block == stmt[2][3]
                      c_span == AtomSpan(6, 5 + Len(c.text))
                      e_span == AtomSpan(7 + Len(c.text),
                                         6 + Len(c.text) + Len(e.text))
                  IN /\ stmt[1] = "IfElseStatement"
                     /\ stmt[2][1] = "IfElse"
                     /\ stmt[2][4] = <<"None">>
                     /\ cond.span = c_span
                     /\ cond.value[1] = "UnaryExp"
                     /\ cond.value[2] = "Not"
                     /\ cond.value[3].span = c_span
                     /\ Erase(cond.value[3]) = c.tree
                     /\ block.span = e_span
                     /\ block.value[1] = "Block_"
                     /\ Len(block.value[2]) = 1
                     /\ block.value[2][1][1] = "CommandStatement"
                     /\ block.value[2][1][2].span = e_span
                     /\ block.value[2][1][2].value[1] = "Abort"
                     /\ block.value[2][1][2].value[2][1] = "Some"
                     /\ block.value[2][1][2].value[2][2].span = e_span
                     /\ Erase(block.value[2][1][2].value[2][2]) = e.tree

\* main() { assert(copy(a) == copy(b), 1 + 2) } has been parsed: the
\* condition spans `copy(a) == copy(b)` and the then-block `1 + 2`
C7_Witness ==
    /\ ReturnedOk("parse_script_string",
                  ScriptText(<<AssertText(ExpText(<<"EqualEqual">>, "copy", FALSE),
                                          ExpText(<<"Plus">>, "val", FALSE), FALSE)>>))
    /\ MainStatements[1][1] = "IfElseStatement"
    /\ MainStatements[1][2][2].span = AtomSpan(6, 12)
    /\ MainStatements[1][2][3].span = AtomSpan(14, 16)
    /\ MainStatements[1][2][2].span # MainStatements[1][2][3].span

\* the assert of the statement lists, with and without a `;` after it
C8_Assert(semi) == AssertText(Operand(1, "copy"), Operand(2, "val"), semi)

\* the statements a text of ListStmtTexts stands for, by variant
StmtKinds(text) ==
    IF text = C8_Assert(TRUE) THEN <<"IfElseStatement", "EmptyStatement">>
    ELSE IF text = C8_Assert(FALSE) THEN <<"IfElseStatement">>
    ELSE IF text = <<P("Semicolon")>> THEN <<"EmptyStatement">>
    ELSE IF text = <<P("Return"), P("Semicolon")>> THEN <<"CommandStatement">>
    ELSE <<"LoopStatement">>

\* the variants of the statements the texts stmts[i..] stand for
RECURSIVE ListKinds(_, _)
ListKinds(stmts, i) ==
    IF i > Len(stmts) THEN <<>>
    ELSE StmtKinds(stmts[i]) \o ListKinds(stmts, i + 1)

\* the variants of the statements of main
MainKinds == [i \in DOMAIN MainStatements |-> MainStatements[i][1]]

\* the statement lists made of ListStmtTexts
C8_Lists == UNION {[1..k -> ListStmtTexts] : k \in 0..MaxStmts}

C9_Modules ==
    { [text |-> ModuleText(<<>>), structs |-> 0, functions |-> 0, synthetics |-> 0],
      [text |-> DeclModuleText, structs |-> 1, functions |-> 2, synthetics |-> 0],
      [text |-> InvariantModuleText, structs |-> 1, functions |-> 0, synthetics |-> 1],
      [text |-> ModuleText(FunText(<<ClauseText("Ensures", <<"AmpAmp">>)>>)),
       structs |-> 0, functions |-> 1, synthetics |-> 0] }

\* what follows the module in the text: nothing, or a token
C9_Trailers == Trailers \ {<<Junk>>}

\* public main() { return; } with no imports and no spans
C9_Script ==
    <<"Script",
      [imports |-> <<>>,
       main |->
         [span |-> <<0, 0>>,
          value |->
            <<"Function_",
              [visibility |-> "Public", args |-> <<>>, return_type |-> <<>>,
               type_formals |-> <<>>, acquires |-> <<>>, specifications |-> <<>>,
               body |->
                 <<"Move", <<>>,
                   <<"Block_",
                     << <<"CommandStatement",
                          [span |-> <<0, 0>>,
                           value |-> <<"Return",
                                       [span |-> <<0, 0>>,
                                        value |-> <<"ExprList", <<>>>>]>>]>> >>
                   >> >>] >>]] >>

\* the tokens the parse has advanced past
Advances ==
    Cardinality({i \in DOMAIN outcome.lx.log :
                    outcome.lx.log[i].op = "advance" /\ i > 1})

\* C9: when the first token is `module`, parse_program parses exactly one
\* module M and returns a Program whose modules are [M] and whose script has
\* no imports and a made-up public main with no arguments, return types or
\* locals and a body of one statement, Return of an empty ExprList; the
\* cursor is left on the token after the module's closing `}`, whatever it
\* is.
C9_LoneModuleProgram ==
    \A m \in C9_Modules, t \in C9_Trailers :
        (entry = "parse_program_string" /\ input = m.text \o t)
            => /\ outcome.ok
               /\ outcome.v[1] = "Program"
               /\ Len(outcome.v[2].modules) = 1
               /\ LET M == outcome.v[2].modules[1]
                  IN /\ M[1] = "ModuleDefinition"
                     /\ M[2].name = <<"ModuleName", "M">>
                     /\ Len(M[2].structs) = m.structs
                     /\ Len(M[2].functions) = m.functions
                     /\ Len(M[2].synthetics) = m.synthetics
               /\ outcome.v[2].script = C9_Script
               /\ Advances = Len(m.text)
               /\ previous_end_loc(outcome.lx) = AtomEnd(input, Len(m.text))
               /\ peek(outcome.lx) = IF t = <<>> THEN "EOF" ELSE t[1].k
               /\ t # <<>> => start_loc(outcome.lx) = AtomStart(input, Len(m.text) + 1)

\* a module followed by a second module has been parsed to a program of one
\* module, the cursor on the second `module`
C9_Witness ==
    /\ ReturnedOk("parse_program_string", DeclModuleText \o ModuleText(<<>>))
    /\ Len(outcome.v[2].modules) = 1
    /\ outcome.v[2].script = C9_Script
    /\ peek(outcome.lx) = "Module"

\* the lists of bindings of the unpacks, TRUE standing for `f`, FALSE for `f: v`
C10_Shorts == UNION {[1..k -> BOOLEAN] : k \in 0..MaxBindings}

\* the i-th binding of an unpack as a pair, its field being atom `at`
BindingAst(i, short, at) ==
    <<[span |-> AtomSpan(at, at), value |-> <<"Field_", OperandNames[i]>>],
      IF short
      THEN [span |-> AtomSpan(at, at), value |-> <<"Var_", OperandNames[i]>>]
      ELSE [span |-> AtomSpan(at + 2, at + 2),
            value |-> <<"Var_", OperandDigits[i] \o "v">>]>>

\* the bindings i.. of an unpack as pairs, the i-th starting at atom `at`
RECURSIVE BindingAsts(_, _, _)
BindingAsts(shorts, i, at) ==
    IF i > Len(shorts) THEN <<>>
    ELSE <<BindingAst(i, shorts[i], at)>>
            \o BindingAsts(shorts, i + 1, at + (IF shorts[i] THEN 2 ELSE 4))

\* C10: in an unpack `S { bindings } = e`, parse_field_bindings turns a field
\* name f with no `:` after it into (f, Var f), the variable having the
\* field's span, and consumes the field token only; `f: v` it turns into
\* (f, v).  So `f` stands for `f: f`.  (A comma may end a list of bindings
\* that is not empty.)
C10_FieldShorthand ==
    \A shorts \in C10_Shorts, comma \in BOOLEAN :
        (entry = "parse_cmd_string" /\ input = UnpackText(shorts, comma)
           /\ (comma => shorts # <<>>))
            => /\ outcome.ok
               /\ outcome.v[1] = "Unpack"
               /\ outcome.v[2] = <<"StructName", "S">>
               /\ outcome.v[3] = <<>>
               /\ outcome.v[4] = BindingAsts(shorts, 1, 3)
               /\ Erase(outcome.v[5]) = OperandAst(1, "val")
               /\ peek(outcome.lx) = "EOF"

\* S { a, b: 2v } = 1 has been parsed: a is bound to the variable a, b to 2v
C10_Witness ==
    /\ ReturnedOk("parse_cmd_string", UnpackText(<<TRUE, FALSE>>, FALSE))
    /\ outcome.v[4][1][1].value = <<"Field_", "a">>
    /\ outcome.v[4][1][2].value = <<"Var_", "a">>
    /\ outcome.v[4][1][2].span = outcome.v[4][1][1].span
    /\ outcome.v[4][2][2].value = <<"Var_", "2v">>

\* texts the entry points accept whole, parsed also with one fault in them
C11_Bases ==
    { [entry |-> "parse_cmd_string", text |-> UnpackText(<<TRUE, FALSE>>, FALSE)],
      [entry |-> "parse_cmd_string",
       text |-> AssignText(ExpText(<<"Plus", "Star">>, "copy", TRUE))],
      [entry |-> "parse_script_string",
       text |-> ScriptText(<<AssertText(Operand(1, "copy"), Operand(2, "val"), TRUE)>>)],
      [entry |-> "parse_module_string",
       text |-> ModuleText(FunText(<<ClauseText("Ensures", <<"AmpAmp">>)>>))],
      [entry |-> "parse_module_string", text |-> InvariantModuleText],
      [entry |-> "parse_module_string", text |-> DeclModuleText],
      [entry |-> "parse_program_string",
       text |-> <<P("Modules")>> \o ModuleText(<<>>) \o <<P("Script")>>
                    \o ScriptText(<<>>)],
      [entry |-> "parse_program_string",
       text |-> ModuleText(FunText(<<ClauseText("Ensures", <<"AmpAmp">>)>>))],
      [entry |-> "parse_script_or_module_string",
       text |-> ModuleText(FunText(<<ClauseText("Requires", <<"PipePipe">>)>>))],
      [entry |-> "parse_script_or_module_string", text |-> ScriptText(<<LetText>>)] }

\* the entry point has returned Err(InvalidToken)
ReturnedInvalidToken == entry # "none" /\ ~outcome.ok /\ outcome.err[1] = "InvalidToken"

\* the cursor is on the lexeme input[i]
CursorOn(i) == start_loc(outcome.lx) = AtomStart(input, i)

\* where the lexeme after input[i] starts, or the end of the text
StartAfter(i) == IF i < Len(input) THEN AtomStart(input, i + 1) ELSE TextLen(input)

\* the tokens from which the parser looks one token ahead
LookaheadTokens == {"NameValue", "Native"}

C11_LookaheadFault ==
    /\ entry = "parse_cmd_string"
    /\ ReturnedInvalidToken
    /\ peek(outcome.lx) = "NameValue"
    /\ CursorOn(1)
    /\ Len(input) > 1
    /\ input[2].k = "Invalid"
    /\ outcome.err[2] = AtomStart(input, 2)

\* the cursor's token before the j-th operation on the lexer, and the
\* cursor's token at the return for j one past the last
CursorAt(j) ==
    IF j <= Len(outcome.lx.log)
    THEN [start |-> outcome.lx.log[j].start, end |-> outcome.lx.log[j].end]
    ELSE [start |-> outcome.lx.cur_start, end |-> outcome.lx.cur_end]

\* the operations of one kind the parse has made on the lexer
OpsOf(op) == {j \in DOMAIN outcome.lx.log : outcome.lx.log[j].op = op}

\* C12: across a whole parse the start offset of the current token never
\* decreases: every advance moves the cursor to a token starting at or after
\* the end of the one it leaves, and replace_token keeps the start of the
\* current token and shortens it to length 1, so no byte of the source is
\* consumed twice.
C12_CursorMonotone ==
    /\ \A j \in OpsOf("advance") : CursorAt(j + 1).start >= CursorAt(j).end
    /\ \A j \in OpsOf("replace_token") :
          /\ outcome.lx.log[j].tok = "GreaterGreater"
          /\ CursorAt(j + 1).start = CursorAt(j).start
          /\ CursorAt(j + 1).end = CursorAt(j).start + 1
          /\ CursorAt(j + 1).end < CursorAt(j).end
    /\ \A j \in DOMAIN outcome.lx.log : CursorAt(j).start <= CursorAt(j + 1).start
    /\ \A j \in OpsOf("advance"), k \in OpsOf("advance") :
          j < k => CursorAt(j).end <= CursorAt(k).start

\* move_from<S<u64>>(copy(a)) has been parsed, its `>>` split and both
\* halves consumed one after the other
C12_Witness ==
    /\ ReturnedOk("parse_cmd_string",
                  <<P("MoveFrom"), N("S"), G("Less"), P("U64"), G("GreaterGreater"),
                    P("LParen")>> \o Operand(1, "copy") \o <<P("RParen")>>)
    /\ \E j \in OpsOf("replace_token") :
          /\ outcome.lx.log[j + 1].op = "advance"
          /\ outcome.lx.log[j + 2].op = "advance"
          /\ CursorAt(j + 2).start = CursorAt(j + 1).end
          /\ CursorAt(j + 2).end = CursorAt(j).end

\* span c lies inside span p
Inside(c, p) == p[1] <= c[1] /\ c[2] <= p[2]

\* the spanned nodes directly below the expression node e
ExpChildren(e) ==
    LET v == e.value IN
    CASE v[1] = "BinopExp" -> <<v[2], v[4]>>
      [] v[1] = "UnaryExp" -> <<v[3]>>
      [] v[1] = "Dereference" -> <<v[2]>>
      [] v[1] = "Borrow" -> <<v[3]>>
      [] v[1] = "FunctionCall" -> <<v[2], v[3]>>
      [] v[1] = "ExprList" -> v[2]
      [] v[1] = "Pack" ->
            [i \in 1..(2 * Len(v[4])) |-> v[4][(i + 1) \div 2][2 - (i % 2)]]
      [] v[1] \in {"Copy", "Move", "Value"} -> <<v[2]>>
      [] v[1] = "BorrowLocal" -> <<v[3]>>
      [] OTHER -> <<>>

\* the spanned nodes that are expressions, among those ExpChildren gives
IsExp(e) ==
    e.value[1] \in {"BinopExp", "UnaryExp", "Dereference", "Borrow", "FunctionCall",
                    "ExprList", "Pack", "Copy", "Move", "Value", "BorrowLocal"}

\* every span in the expression e is an interval, and holds the spans of
\* the nodes below it
RECURSIVE SpansNested(_)
SpansNested(e) ==
    /\ e.span[1] <= e.span[2]
    /\ \A i \in DOMAIN ExpChildren(e) :
          LET c == ExpChildren(e)[i] IN
          /\ c.span[1] <= c.span[2]
          /\ Inside(c.span, e.span)
          /\ IsExp(c) => SpansNested(c)

\* the expressions directly below the command c
CmdExps(c) ==
    CASE c[1] = "Assign" -> <<c[3]>>
      [] c[1] = "Unpack" -> <<c[5]>>
      [] c[1] = "Return" -> <<c[2]>>
      [] c[1] = "Exp" -> <<c[2]>>
      [] c[1] = "Abort" -> IF c[2][1] = "Some" THEN <<c[2][2]>> ELSE <<>>
      [] OTHER -> <<>>

\* C13 (as stated): in the command a successful parse returns, every span is
\* an interval and the span of each spanned child lies inside the span of
\* the node that encloses it, the ExprList built by `return` and by a
\* parenthesized command and the pack inside a borrow included.
C13_SpansNested ==
    (entry = "parse_cmd_string" /\ outcome.ok)
        => \A i \in DOMAIN CmdExps(outcome.v) : SpansNested(CmdExps(outcome.v)[i])

\* `return 1, copy(b);` has been parsed: the ExprList has no span, its items do
C13_ReturnListWithoutSpan ==
    /\ ReturnedOk("parse_cmd_string",
                  <<P("Return")>> \o Operand(1, "val") \o <<P("Comma")>>
                      \o Operand(2, "copy") \o <<P("Semicolon")>>)
    /\ outcome.v[1] = "Return"
    /\ outcome.v[2].span = <<0, 0>>
    /\ outcome.v[2].value[2][1].span = AtomSpan(2, 2)
    /\ ~Inside(outcome.v[2].value[2][1].span, outcome.v[2].span)

\* the expressions that are the field of the pack in x = &S { a: <e> }.a
C14_Operands == {Operand(1, "val"), Operand(1, "copy")}

\* x = &S { a: <e> }.a and x = &mut S { a: <e> }.a
C14_Texts(e) ==
    {AssignText(<<P(amp)>> \o PackOperand(e)) : amp \in {"Amp", "AmpMut"}}

\* C14 (as stated): a spanned node starts at start_loc() of its first token
\* and ends at previous_end_loc() read after its last token; so in
\* `x = &S { a: e }.a` the borrow spans `&` to the field name, the pack spans
\* `S` to the closing `}`, and the field's expression spans e.
C14_SpansCoverTokens ==
    \A e \in C14_Operands :
        (entry = "parse_cmd_string" /\ input \in C14_Texts(e))
            => /\ outcome.ok
               /\ outcome.v[1] = "Assign"
               /\ outcome.v[3].value[1] = "Borrow"
               /\ outcome.v[3].span = AtomSpan(3, Len(input))
               /\ outcome.v[3].value[3].value[1] = "Pack"
               /\ outcome.v[3].value[3].value[4][1][2].span = AtomSpan(8, 7 + Len(e))
               /\ outcome.v[3].value[3].span = AtomSpan(4, 8 + Len(e))

\* x = &S { a: 1 }.a has been parsed: the span of the pack is that of `S`
C14_PackSpanEndsAtName ==
    /\ ReturnedOk("parse_cmd_string",
                  AssignText(<<P("Amp")>> \o PackOperand(Operand(1, "val"))))
    /\ outcome.v[3].value[3].value[1] = "Pack"
    /\ outcome.v[3].value[3].span = AtomSpan(4, 4)
    /\ outcome.v[3].value[3].span # AtomSpan(4, 9)
    /\ input[9].k = "RBrace"

\* what the AST returned is: its variant or struct, and the number of its
\* parts (lvalues, bindings, functions, modules, statements of main)
AstShape ==
    LET v == outcome.v IN
    CASE v[1] = "Assign" -> <<"Assign", Len(v[2])>>
      [] v[1] = "Unpack" -> <<"Unpack", Len(v[4])>>
      [] v[1] = "ModuleDefinition" -> <<"ModuleDefinition", Len(v[2].functions)>>
      [] v[1] = "Program" -> <<"Program", Len(v[2].modules)>>
      [] v[1] = "Script" /\ entry = "parse_script_string" ->
            <<"Script", Len(MainStatements)>>
      [] v[1] = "Script" -> <<"Script", Len(v[2][2].main.value[2].body[3][2])>>
      [] v[1] = "Module" -> <<"Module", Len(v[2][2].functions)>>
      [] OTHER -> <<v[1], 0>>

\* C15: no entry point checks for the end of the input: when the top-level
\* production succeeds the entry point returns Ok with its AST whatever
\* tokens follow, the cursor on the first token after the production.  (The
\* lexer reads that token when the production's last token is consumed; a
\* text that goes on with something that is no token makes that fail.)
C15_TrailingTokensIgnored ==
    \A p \in Productions, t \in Trailers :
        (entry = p.entry /\ input = p.text \o t)
            => IF t = <<Junk>>
               THEN /\ ~outcome.ok
                    /\ outcome.err = InvalidToken(AtomStart(input, Len(input)))
               ELSE /\ outcome.ok
                    /\ AstShape = p.ast
                    /\ Advances = Len(p.text)
                    /\ previous_end_loc(outcome.lx) = AtomEnd(input, Len(p.text))
                    /\ peek(outcome.lx) = IF t = <<>> THEN "EOF" ELSE t[1].k
                    /\ t # <<>> => start_loc(outcome.lx)
                                      = AtomStart(input, Len(p.text) + 1)

\* `x = 1 module M { }` has been parsed as a command, the cursor on `module`
C15_Witness ==
    /\ ReturnedOk("parse_cmd_string", AssignText(Operand(1, "val")) \o ModuleText(<<>>))
    /\ outcome.v[1] = "Assign"
    /\ peek(outcome.lx) = "Module"
    /\ start_loc(outcome.lx) = AtomStart(input, 4)

\* the entry point has returned Err(User)
ReturnedUser == entry # "none" /\ ~outcome.ok /\ outcome.err[1] = "User"

\* C16 (as stated): a failure of an AST value constructor is returned as
\* ParseError::User: a name that Var_::parse, StructName::parse,
\* ModuleName::parse, FunctionName::parse or TypeVar_::parse rejects, and an
\* address literal that AccountAddress::from_hex_literal rejects, the cursor
\* then still being on the address token.
C16_ConstructorFailureIsUser ==
    /\ (entry = "parse_cmd_string" /\ input \in BadNameCmdTexts) => ReturnedUser
    /\ (entry = "parse_module_string" /\ input \in BadNameModuleTexts) => ReturnedUser
    /\ (entry = "parse_cmd_string" /\ input \in BadAddressCmdTexts)
          => /\ ReturnedUser
             /\ peek(outcome.lx) = "AccountAddressValue"
             /\ CursorOn(3)

\* x = 0x11..1 (65 digits): parse_account_address does not return
C16_AddressPanics ==
    /\ entry = "parse_cmd_string"
    /\ input = AssignText(<<V("AccountAddressValue", LongAddress)>>)
    /\ IsPanic(outcome)
    /\ peek(outcome.lx) = "AccountAddressValue"
    /\ CursorOn(3)

\* x = &a, the input ending after the name
C17_BorrowAtEnd == AssignText(<<P("Amp"), N("a")>>)

\* module M { f() ensures a, the input ending after the name
C17_SpecNameAtEnd ==
    SubSeq(ModuleText(FunText(<<ClauseText("Ensures", <<"AmpAmp">>)>>)), 1, 8)

\* C17 (as stated): where the parser looks one token ahead, a lookahead()
\* that returns an error counts as `the expected token is not there` and the
\* other alternative is parsed: `x = &a` at the end of the input is the
\* borrow of the local a; the command `x` is parsed as an assignment, which
\* consumes x; after `native` a function declaration is parsed, which
\* consumes `native`; a name in a spec expression is a storage location.
C17_LookaheadErrorMeansNoMatch ==
    /\ (entry = "parse_cmd_string" /\ input = C17_BorrowAtEnd)
          => /\ outcome.ok
             /\ outcome.v[3].value[1] = "BorrowLocal"
    /\ (entry = "parse_cmd_string" /\ input = <<N("x")>>)
          => /\ ReturnedInvalidToken
             /\ peek(outcome.lx) = "EOF"
    /\ (entry = "parse_module_string" /\ input = SubSeq(DeclModuleText, 1, 4))
          => /\ ReturnedInvalidToken
             /\ peek(outcome.lx) = "EOF"
    /\ (entry = "parse_module_string" /\ input = C17_SpecNameAtEnd)
          => /\ ReturnedInvalidToken
             /\ peek(outcome.lx) = "EOF"
             /\ Advances = Len(input)

\* x = &a: the error of lookahead() is returned, the cursor still on a
C17_LookaheadErrorReturned ==
    /\ entry = "parse_cmd_string"
    /\ input = C17_BorrowAtEnd
    /\ ~outcome.ok
    /\ outcome.err = InvalidToken(TextLen(input))
    /\ peek(outcome.lx) = "NameValue"
    /\ CursorOn(4)

\* the parse has advanced past a token tok
Consumed(tok) ==
    \E j \in OpsOf("advance") : outcome.lx.log[j].tok = tok

NotBinaryOperator == Panic("Unexpected token that is not a binary operator")

\* C18 (as stated): parse_exp never consumes a `==>` as a binary operator
\* and never reaches the panic `Unexpected token that is not a binary
\* operator`: in `x = a ==> b` the expression ends before the `==>`, which
\* is left under the cursor.
C18_ImplicationLeftAlone ==
    /\ entry = "parse_cmd_string" => outcome.err # NotBinaryOperator
    /\ \A shape \in OperandShapes :
          (entry = "parse_cmd_string"
             /\ input = AssignText(ExpText(<<"EqualEqualGreater">>, shape, FALSE)))
              => /\ outcome.ok
                 /\ Erase(outcome.v[3]) = OperandAst(1, shape)
                 /\ peek(outcome.lx) = "EqualEqualGreater"
                 /\ ~Consumed("EqualEqualGreater")

\* x = copy(a) ==> copy(b): the `==>` and its right operand are consumed,
\* then the parser panics
C18_ImplicationPanics ==
    /\ entry = "parse_cmd_string"
    /\ input = AssignText(ExpText(<<"EqualEqualGreater">>, "copy", FALSE))
    /\ outcome.err = NotBinaryOperator
    /\ Consumed("EqualEqualGreater")
    /\ peek(outcome.lx) = "EOF"

ShiftTokens == {"LessLess", "GreaterGreater"}

\* C19 (as stated): bitshifts are no spec operators: a `<<` or `>>` after a
\* spec-unary ends the spec expression and is not consumed, so in
\* `module M { f() ensures a << b { } }` the clause is `ensures a` and the
\* parse reports InvalidToken at the `<<`, where the body of f should start;
\* the panic of parse_rhs_of_spec_exp is never reached.
C19_ShiftEndsSpecExp ==
    /\ entry = "parse_module_string" => outcome.err # NotBinaryOperator
    /\ \A shift \in ShiftTokens :
          (entry = "parse_module_string" /\ input = EnsuresText(<<shift>>))
              => /\ outcome.err = InvalidToken(AtomStart(input, 9))
                 /\ peek(outcome.lx) = shift
                 /\ ~Consumed(shift)

\* module M { f() ensures a << b { } }: the `<<` and b are consumed, then
\* the parser panics
C19_ShiftPanics ==
    /\ entry = "parse_module_string"
    /\ input = EnsuresText(<<"LessLess">>)
    /\ input[9].k = "LessLess"
    /\ outcome.err = NotBinaryOperator
    /\ Consumed("LessLess")
    /\ peek(outcome.lx) = "LBrace"
    /\ outcome.lx.spec_mode = TRUE

\* the value i of a return list and the lvalue i of an assignment, as parsed
\* from the lexeme input[at]
U64Ast(i, at) ==
    [span |-> AtomSpan(at, at),
     value |-> <<"Value", [span |-> AtomSpan(at, at),
                           value |-> <<"U64", OperandDigits[i]>>]>>]

VarLvalueAst(i, at) ==
    [span |-> AtomSpan(at, at),
     value |-> <<"Var", [span |-> AtomSpan(at, at),
                         value |-> <<"Var_", OperandNames[i]>>]>>]

\* C20: parse_comma_list returns the items in source order, the empty list
\* when the first token is an end token, and leaves the cursor on the end
\* token.  In `return e1, ..., en ;` (allow_trailing_comma true) a `,` before
\* the `;` is accepted and the `;` is not consumed; with no item, a `,` is
\* handed to the item parser and rejected.  In `a, b, ... = 1`
\* (allow_trailing_comma false) the list ends on the `=`, which parse_assign_
\* then consumes; after a `,` the `=` is handed to parse_lvalue, which
\* rejects it with InvalidToken at the `=`.
C20_CommaList ==
    /\ \A n \in 0..MaxItems, comma \in BOOLEAN :
          (entry = "parse_cmd_string" /\ input = ReturnListText(n, comma))
              => IF n = 0 /\ comma
                 THEN /\ ~outcome.ok
                      /\ outcome.err = InvalidToken(AtomStart(input, 2))
                      /\ CursorOn(2)
                 ELSE /\ outcome.ok
                      /\ outcome.v = <<"Return",
                            no_loc(<<"ExprList", [i \in 1..n |-> U64Ast(i, 2 * i)]>>)>>
                      /\ CursorOn(Len(input))
                      /\ peek(outcome.lx) = "Semicolon"
                      /\ ~Consumed("Semicolon")
                      /\ Advances = Len(input) - 1
    /\ \A n \in 1..MaxItems, comma \in BOOLEAN :
          (entry = "parse_cmd_string" /\ input = LvalueListText(n, comma))
              => IF comma
                 THEN /\ ~outcome.ok
                      /\ outcome.err = InvalidToken(AtomStart(input, 2 * n + 1))
                      /\ CursorOn(2 * n + 1)
                      /\ peek(outcome.lx) = "Equal"
                 ELSE /\ outcome.ok
                      /\ outcome.v[1] = "Assign"
                      /\ outcome.v[2] = [i \in 1..n |-> VarLvalueAst(i, 2 * i - 1)]
                      /\ Consumed("Equal")
                      /\ Advances = Len(input)

\* return 1, 2, ; : two values, the cursor on the `;`
C20_Witness ==
    /\ entry = "parse_cmd_string"
    /\ input = ReturnListText(2, TRUE)
    /\ input[5].k = "Comma" /\ input[6].k = "Semicolon"
    /\ outcome.ok
    /\ Len(outcome.v[2].value[2]) = 2
    /\ peek(outcome.lx) = "Semicolon"

\* a, b, = 1 : rejected at the `=`
C20_TrailingCommaRejected ==
    /\ entry = "parse_cmd_string"
    /\ input = LvalueListText(2, TRUE)
    /\ outcome.err = InvalidToken(AtomStart(input, 5))
    /\ peek(outcome.lx) = "Equal"

\* the tokens that open a list of types: `<`, and the builtins ending in `<`
TypeListOpeners ==
    {"Less", "Exists", "BorrowGlobal", "BorrowGlobalMut", "MoveFrom", "MoveToSender"}

\* the token current after the lexer operation j
TokenAfter(j) ==
    IF j < Len(outcome.lx.log) THEN outcome.lx.log[j + 1].tok ELSE peek(outcome.lx)

\* C21: replace_token is only ever applied to a `>>` token and turns it into
\* a `>` of length 1; no `>>` is split twice; every `>>` that is split lies
\* behind the opener of a list of types.  Where a comma list does not end at
\* `>` a `>>` stays whole: `x = a >> b` and `return 1 >> 2 ;` parse it as the
\* shift operator, and `return >> 1 ;`, `( >> 1 )` and `x >> = 1` fail at the
\* unsplit `>>`.
C21_SplitOnlyInTypeLists ==
    /\ \A j \in OpsOf("replace_token") :
          /\ outcome.lx.log[j].tok = "GreaterGreater"
          /\ outcome.lx.log[j].end = outcome.lx.log[j].start + 2
          /\ TokenAfter(j) = "Greater"
          /\ CursorAt(j + 1).end = CursorAt(j).start + 1
          /\ \E i \in DOMAIN input :
                /\ input[i].k \in TypeListOpeners
                /\ AtomStart(input, i) < outcome.lx.log[j].start
    /\ \A j \in OpsOf("replace_token"), k \in OpsOf("replace_token") :
          j # k => outcome.lx.log[j].start # outcome.lx.log[k].start
    /\ \A shape \in OperandShapes, neg \in BOOLEAN :
          (entry = "parse_cmd_string"
              /\ input = AssignText(ExpText(<<"GreaterGreater">>, shape, neg)))
              => /\ outcome.ok
                 /\ Splits = 0
                 /\ Consumed("GreaterGreater")
                 /\ outcome.v[3].value[1] = "BinopExp"
                 /\ outcome.v[3].value[3] = "Shr"
    /\ (entry = "parse_cmd_string"
          /\ input = <<P("Return")>> \o ExpText(<<"GreaterGreater">>, "val", FALSE)
                        \o <<P("Semicolon")>>)
          => /\ outcome.ok
             /\ Splits = 0
             /\ Erase(outcome.v[2].value[2][1])
                   = <<"BinopExp", OperandAst(1, "val"), "Shr", OperandAst(2, "val")>>
    /\ (entry = "parse_cmd_string" /\ input \in ShiftInListTexts /\ ~outcome.ok)
          => /\ Splits = 0
             /\ outcome.err = InvalidToken(AtomStart(input, 2))
             /\ peek(outcome.lx) = "GreaterGreater"
             /\ outcome.lx.cur_end = outcome.lx.cur_start + 2

\* x >> = 1 : the list of lvalues meets a `>>` and leaves it whole
C21_Witness ==
    /\ entry = "parse_cmd_string"
    /\ input = <<N("x"), P("GreaterGreater"), P("Equal")>> \o Operand(1, "val")
    /\ ~outcome.ok
    /\ peek(outcome.lx) = "GreaterGreater"
    /\ Splits = 0

\* the locals of the main function returned
MainLocals == outcome.v[2].main.value[2].body[2]

\* the i-th declaration `let <name>: u64;` of main() { ... }, as parsed
LocalAst(i) ==
    <<[span |-> AtomSpan(5 * i + 1, 5 * i + 1), value |-> <<"Var_", OperandNames[i]>>],
      <<"U64">>>>

\* C22: in main() { let a: u64; ... <statement> } the declarations at the
\* head of the block become the locals, in order; a `let` that comes after a
\* statement (or after the start of one, as in `return let ...`) or inside a
\* nested block is rejected with InvalidToken at that `let`.
C22_DeclarationsFirst ==
    /\ \A k \in 0..MaxLets, stmts \in [1..1 -> SimpleStmtTexts] \cup {<<>>},
          late \in BOOLEAN :
          (entry = "parse_script_string" /\ input = DeclBlockText(k, stmts, late))
              => LET n == IF stmts = <<>> /\ late THEN k + 1 ELSE k
                     at == 4 + 5 * k + Len(Flatten(stmts)) + 1
                 IN IF late /\ stmts # <<>>
                    THEN /\ ~outcome.ok
                         /\ input[at].k = "Let"
                         /\ outcome.err = InvalidToken(AtomStart(input, at))
                         /\ CursorOn(at)
                         /\ peek(outcome.lx) = "Let"
                    ELSE stmts # << <<P("Return")>> >>
                            => /\ outcome.ok
                               /\ MainLocals = [i \in 1..n |-> LocalAst(i)]
                               /\ Len(MainStatements) = Len(stmts)
    /\ (entry = "parse_script_string" /\ input = LetInLoopText)
          => /\ ~outcome.ok
             /\ outcome.err = InvalidToken(AtomStart(input, 7))
             /\ peek(outcome.lx) = "Let"

\* main() { let a: u64; return; let b: u64; } is rejected at the second `let`
C22_Witness ==
    /\ entry = "parse_script_string"
    /\ input = DeclBlockText(1, << <<P("Return"), P("Semicolon")>> >>, TRUE)
    /\ input[12].k = "Let"
    /\ outcome.err = InvalidToken(AtomStart(input, 12))
    /\ peek(outcome.lx) = "Let"

\* the functions of the module returned
Functions == outcome.v[2].functions

\* how many struct declarations a module body starts with
RECURSIVE LeadingStructs(_, _)
LeadingStructs(kinds, i) ==
    IF i > Len(kinds) \/ kinds[i] \notin StructKinds THEN i - 1
    ELSE LeadingStructs(kinds, i + 1)

\* the lexeme at which the i-th declaration starts in ModuleBodyText(kinds)
RECURSIVE DeclAt(_, _)
DeclAt(kinds, i) ==
    IF i = 1 THEN 4
    ELSE DeclAt(kinds, i - 1) + (IF kinds[i - 1] \in StructKinds THEN 4 ELSE 5)

\* C23: in module M { declarations } the struct declarations the body starts
\* with (`struct`, `resource`, or either after `native`) become the structs
\* and the function declarations after them the functions, both in source
\* order; a struct declaration after a function declaration is not added to
\* the structs: the parse fails with InvalidToken at its `struct` keyword,
\* where the name of a function was expected.
C23_StructsBeforeFunctions ==
    \A kinds \in DeclLists :
        (entry = "parse_module_string" /\ input = ModuleBodyText(kinds))
            => LET p == LeadingStructs(kinds, 1)
                   late == {i \in DOMAIN kinds : i > p /\ kinds[i] \in StructKinds}
               IN IF late = {}
                  THEN /\ outcome.ok
                       /\ Len(Structs) = p
                       /\ Len(Functions) = Len(kinds) - p
                       /\ \A i \in 1..p :
                             /\ Structs[i].value[2].name = <<"StructName", OperandNames[i]>>
                             /\ Structs[i].value[2].is_nominal_resource
                                   = (kinds[i] = "resource")
                             /\ (Structs[i].value[2].fields = <<"Native">>)
                                   = (kinds[i] = "native_struct")
                             /\ Structs[i].span[1] = AtomStart(input, DeclAt(kinds, i))
                       /\ \A i \in (p + 1)..Len(kinds) :
                             /\ Functions[i - p][1] = <<"FunctionName", OperandNames[i]>>
                             /\ Functions[i - p][2].span[1]
                                   = AtomStart(input, DeclAt(kinds, i))
                  ELSE LET i == CHOOSE i \in late : \A j \in late : i <= j
                           at == DeclAt(kinds, i)
                                    + (IF kinds[i] = "native_struct" THEN 1 ELSE 0)
                       IN /\ ~outcome.ok
                          /\ input[at].k \in {"Struct", "Resource"}
                          /\ outcome.err = InvalidToken(AtomStart(input, at))
                          /\ CursorOn(at)

\* module M { struct a { } b() { } native struct c; }: rejected at the second
\* `struct`, after the `native` before it has been consumed
C23_Witness ==
    /\ entry = "parse_module_string"
    /\ input = ModuleBodyText(<<"struct", "fun", "native_struct">>)
    /\ input[14].k = "Struct"
    /\ outcome.err = InvalidToken(AtomStart(input, 14))
    /\ Consumed("Native")

\* C24: module M { [native] [public] f() [: u64] [acquires T] <body> }.  A
\* native function ends with `;` and has body Native, any other function has
\* a block and body Move{locals, code}; a native function met with `{`, or
\* another function met with `;`, fails with InvalidToken at that token.
\* The visibility is Public exactly when `public` was written, and a return
\* type or an acquires clause left out gives the empty list.
C24_FunctionDecl ==
    \A native \in BOOLEAN, public \in BOOLEAN, ret \in BOOLEAN, acq \in BOOLEAN,
       body \in FunBodies :
        (entry = "parse_module_string"
            /\ input = FunDeclText(native, public, ret, acq, body))
            => LET at == IF body = "block" THEN Len(input) - 2 ELSE Len(input) - 1
               IN IF native = (body = "semi")
                  THEN /\ outcome.ok
                       /\ Len(Functions) = 1
                       /\ Functions[1][1] = <<"FunctionName", "f">>
                       /\ Functions[1][2].span = AtomSpan(4, Len(input) - 1)
                       /\ Functions[1][2].value
                             = <<"Function_",
                                 [visibility |-> IF public THEN "Public" ELSE "Internal",
                                  args |-> <<>>,
                                  return_type |-> IF ret THEN << <<"U64">> >> ELSE <<>>,
                                  type_formals |-> <<>>,
                                  acquires |-> IF acq THEN << <<"StructName", "T">> >>
                                               ELSE <<>>,
                                  specifications |-> <<>>,
                                  body |-> IF native THEN <<"Native">>
                                           ELSE <<"Move", <<>>, <<"Block_", <<>>>>>>]>>
                  ELSE /\ ~outcome.ok
                       /\ input[at].k = (IF native THEN "LBrace" ELSE "Semicolon")
                       /\ outcome.err = InvalidToken(AtomStart(input, at))
                       /\ CursorOn(at)

\* module M { native public f(): u64 acquires T { } } is rejected at the `{`
C24_Witness ==
    /\ entry = "parse_module_string"
    /\ input = FunDeclText(TRUE, TRUE, TRUE, TRUE, "block")
    /\ outcome.err = InvalidToken(AtomStart(input, 13))
    /\ peek(outcome.lx) = "LBrace"

\* module M { native f(); } is accepted, the body of f being Native
C24_NativeAccepted ==
    /\ entry = "parse_module_string"
    /\ input = FunDeclText(TRUE, FALSE, FALSE, FALSE, "semi")
    /\ outcome.ok
    /\ Functions[1][2].value[2].body = <<"Native">>
    /\ Functions[1][2].value[2].visibility = "Internal"

\* the first token of the input and the token after it, as the lexer finds
\* them outside spec clauses
FirstToken == find_token(input, 0, FALSE)
SecondToken == find_token(input, FirstToken.start + FirstToken.len, FALSE)

\* the first token is a name and the one after it is (is not) a `{`
NameThenBrace ==
    FirstToken.tok = "NameValue" /\ SecondToken.ok /\ SecondToken.tok = "LBrace"
NameThenOther ==
    FirstToken.tok = "NameValue" /\ ~(SecondToken.ok /\ SecondToken.tok = "LBrace")

\* C25: what parse_cmd_ returns is decided by the first token.  After a
\* NameBeginTy token a command that parses is an Unpack of that struct with
\* the type actuals parsed; after a Name it is an Unpack with no type actuals
\* exactly when the next token is `{`, and otherwise an Assign whose first
\* lvalue is that name; after `*` or `_` it is an Assign starting with a
\* Mutate or a Pop.  No other first token gives an Unpack or an Assign.  An
\* Assign has at least one lvalue, its `=` has been consumed, and a `,`
\* right before the `=` is rejected.
C25_AssignOrUnpack ==
    /\ (entry = "parse_cmd_string" /\ outcome.ok)
          => /\ FirstToken.tok = "NameBeginTyValue"
                   => /\ outcome.v[1] = "Unpack"
                      /\ outcome.v[2] = <<"StructName", input[1].s>>
                      /\ outcome.v[3] # <<>>
             /\ NameThenBrace
                   => /\ outcome.v[1] = "Unpack"
                      /\ outcome.v[2] = <<"StructName", input[1].s>>
                      /\ outcome.v[3] = <<>>
             /\ NameThenOther
                   => /\ outcome.v[1] = "Assign"
                      /\ outcome.v[2][1]
                            = [span |-> AtomSpan(1, 1),
                               value |-> <<"Var", [span |-> AtomSpan(1, 1),
                                                   value |-> <<"Var_", input[1].s>>]>>]
             /\ FirstToken.tok = "Star"
                   => outcome.v[1] = "Assign" /\ outcome.v[2][1].value[1] = "Mutate"
             /\ FirstToken.tok = "Underscore"
                   => outcome.v[1] = "Assign" /\ outcome.v[2][1].value = <<"Pop">>
             /\ outcome.v[1] = "Unpack"
                   => FirstToken.tok = "NameBeginTyValue" \/ NameThenBrace
             /\ outcome.v[1] = "Assign"
                   => /\ NameThenOther \/ FirstToken.tok \in {"Star", "Underscore"}
                      /\ Len(outcome.v[2]) >= 1
                      /\ Consumed("Equal")
    /\ \A n \in 1..MaxItems :
          (entry = "parse_cmd_string" /\ input = LvalueListText(n, TRUE))
              => ~outcome.ok /\ peek(outcome.lx) = "Equal"
    /\ \A shorts \in C10_Shorts :
          (entry = "parse_cmd_string" /\ input = UnpackText(shorts, FALSE))
              => outcome.ok /\ NameThenBrace
    /\ \A n \in 1..MaxItems :
          (entry = "parse_cmd_string" /\ input = LvalueListText(n, FALSE))
              => outcome.ok /\ NameThenOther
    /\ (entry = "parse_cmd_string" /\ FirstToken.tok = "Equal")
          => outcome.err = InvalidToken(AtomStart(input, 1)) /\ Advances = 0

\* S<T> { a } = 1 : an unpack with the type actual T
C25_Witness ==
    /\ entry = "parse_cmd_string"
    /\ FirstToken.tok = "NameBeginTyValue"
    /\ outcome.ok
    /\ outcome.v[1] = "Unpack"
    /\ Len(outcome.v[3]) = 1

\* _, *copy(a) = 2 : an assignment to a Pop and a Mutate
C25_PopAssigned ==
    /\ entry = "parse_cmd_string"
    /\ FirstToken.tok = "Underscore"
    /\ outcome.ok
    /\ outcome.v[1] = "Assign"
    /\ Len(outcome.v[2]) = 2
    /\ outcome.v[2][2].value[1] = "Mutate"

\* C26: a `return` command that parses is Return of an ExprList without a
\* span, whatever follows: `return ;` gives the empty list, `return 1 ;` a
\* list of one, and `return 1, 2, 3 ;` the values in the order written; the
\* cursor is left on the `;`, which is not consumed.  An `abort` command that
\* parses is Abort(None) exactly when a `;` follows the `abort` directly, and
\* Abort(Some(e)) otherwise.
C26_ReturnAndAbort ==
    /\ (entry = "parse_cmd_string" /\ FirstToken.tok = "Return" /\ outcome.ok)
          => /\ outcome.v[1] = "Return"
             /\ outcome.v[2].span = <<0, 0>>
             /\ outcome.v[2].value[1] = "ExprList"
             /\ (outcome.v[2].value[2] = <<>>)
                   <=> (SecondToken.ok /\ SecondToken.tok = "Semicolon")
             /\ peek(outcome.lx) = "Semicolon"
             /\ ~Consumed("Semicolon")
    /\ \A n \in 0..MaxItems :
          (entry = "parse_cmd_string" /\ input = ReturnListText(n, FALSE))
              => /\ outcome.ok
                 /\ Len(outcome.v[2].value[2]) = n
                 /\ \A i \in 1..n :
                       /\ Erase(outcome.v[2].value[2][i]) = OperandAst(i, "val")
                       /\ outcome.v[2].value[2][i].span = AtomSpan(2 * i, 2 * i)
                 /\ CursorOn(Len(input))
    /\ (entry = "parse_cmd_string" /\ FirstToken.tok = "Abort" /\ outcome.ok)
          => /\ outcome.v[1] = "Abort"
             /\ IF SecondToken.ok /\ SecondToken.tok = "Semicolon"
                THEN outcome.v[2] = <<"None">> /\ Advances = 1 /\ CursorOn(2)
                ELSE outcome.v[2][1] = "Some" /\ Advances >= 2
    /\ (entry = "parse_cmd_string" /\ input = <<P("Abort"), P("Semicolon")>>)
          => outcome.ok /\ outcome.v = <<"Abort", <<"None">>>>
    /\ (entry = "parse_cmd_string"
          /\ input = <<P("Abort")>> \o Operand(1, "val") \o <<P("Semicolon")>>)
          => /\ outcome.ok
             /\ Erase(outcome.v[2][2]) = OperandAst(1, "val")
             /\ outcome.v[2][2].span = AtomSpan(2, 2)
             /\ peek(outcome.lx) = "Semicolon"

\* return 1, 2, 3 ; : the three values in order, the cursor on the `;`
C26_Witness ==
    /\ entry = "parse_cmd_string"
    /\ input = ReturnListText(3, FALSE)
    /\ outcome.ok
    /\ Len(outcome.v[2].value[2]) = 3
    /\ Erase(outcome.v[2].value[2][3]) = OperandAst(3, "val")
    /\ peek(outcome.lx) = "Semicolon"

\* abort ; : Abort(None)
C26_AbortNone ==
    /\ entry = "parse_cmd_string"
    /\ input = <<P("Abort"), P("Semicolon")>>
    /\ outcome.v = <<"Abort", <<"None">>>>

BorrowTokens == {"Amp", "AmpMut"}

\* what may follow the name in `x = &a ...`: nothing, `;`, `. b`
C27_Rests == {<<>>, <<P("Semicolon")>>, <<P("Period"), N("b")>>}

\* C27 (as stated): after `&` or `&mut`, a name that is not followed by `{`
\* is a BorrowLocal and only the name is consumed, a `.` after it being left
\* unread: so for `x = &a`, `x = &a ;` and `x = &a . b`.  A name followed by
\* `{` is a pack with no type actuals, and after it, as after any other
\* operand, a `.` and a field must follow and give a Borrow: `x = &copy(a) ;`
\* fails at the `;`.
C27_BorrowLocalOrField ==
    /\ \A amp \in BorrowTokens, rest \in C27_Rests :
          (entry = "parse_cmd_string" /\ input = AssignText(<<P(amp), N("a")>> \o rest))
              => /\ outcome.ok
                 /\ outcome.v[3].value
                       = <<"BorrowLocal", amp = "AmpMut",
                           [span |-> AtomSpan(4, 4), value |-> <<"Var_", "a">>]>>
                 /\ Advances = 4
                 /\ rest # <<>> => CursorOn(5)
    /\ \A amp \in BorrowTokens, shape \in OperandShapes :
          (entry = "parse_cmd_string"
              /\ input = AssignText(<<P(amp)>> \o PackOperand(Operand(1, shape))))
              => /\ outcome.ok
                 /\ outcome.v[3].value[1] = "Borrow"
                 /\ outcome.v[3].value[2] = (amp = "AmpMut")
                 /\ outcome.v[3].value[3].value[1] = "Pack"
                 /\ outcome.v[3].value[3].value[2] = <<"StructName", "S">>
                 /\ outcome.v[3].value[3].value[3] = <<>>
                 /\ outcome.v[3].value[4] = <<"Field_", "a">>
    /\ \A amp \in BorrowTokens :
          (entry = "parse_cmd_string"
              /\ input = AssignText(<<P(amp)>> \o Operand(1, "copy")
                                        \o <<P("Period"), N("b")>>))
              => /\ outcome.ok
                 /\ outcome.v[3].value[1] = "Borrow"
                 /\ outcome.v[3].value[2] = (amp = "AmpMut")
                 /\ Erase(outcome.v[3].value[3]) = OperandAst(1, "copy")
                 /\ outcome.v[3].value[4] = <<"Field_", "b">>
    /\ (entry = "parse_cmd_string"
          /\ input = AssignText(<<P("Amp")>> \o Operand(1, "copy") \o <<P("Semicolon")>>))
          => outcome.err = InvalidToken(AtomStart(input, 7))

\* x = &mut a, the input ending after the name: no BorrowLocal, the name is
\* not consumed
C27_BorrowLocalRejected ==
    /\ entry = "parse_cmd_string"
    /\ input = AssignText(<<P("AmpMut"), N("a")>>)
    /\ ~outcome.ok
    /\ outcome.err = InvalidToken(TextLen(input))
    /\ Advances = 3
    /\ CursorOn(4)

\* x = &mut a . b : BorrowLocal, the `.` left under the cursor
C27_PeriodLeftUnread ==
    /\ entry = "parse_cmd_string"
    /\ input = AssignText(<<P("AmpMut"), N("a"), P("Period"), N("b")>>)
    /\ outcome.ok
    /\ outcome.v[3].value[1] = "BorrowLocal"
    /\ peek(outcome.lx) = "Period"

\* the texts that go round every loop of the parser, for their entry points
LoopTexts ==
    [parse_module_string |-> LoopModuleTexts, parse_script_string |-> LoopScriptTexts]

\* the text is one of the loop texts cut short
CutShort ==
    /\ entry \in DOMAIN LoopTexts
    /\ \E t \in LoopTexts[entry] : input \in Prefixes(t)

\* C28: every call of an entry point ends, with a result or in a panic, and
\* the work it does is bounded by the text: the parser never advances when
\* the cursor is at the end of the input, and every advance leaves a token of
\* at least one character for one that starts further on, so there are at
\* most as many advances as lexemes (one more for each `>>` split in two).  A
\* text that is cut short inside a loop (statements, declarations, comma
\* lists, operators, imports, synthetics, structs, functions, fields of a
\* storage location, arguments of a spec call) is rejected with InvalidToken
\* at one of its last lexemes or at its end; cut short right after `RET (`
\* the call ends in a panic, not in a loop.
C28_BoundedWork ==
    /\ entry # "none"
          => /\ outcome.ok \/ outcome.err[1] \in {"InvalidToken", "User", "Panic"}
             /\ \A j \in OpsOf("advance") :
                   j > 1 => /\ outcome.lx.log[j].tok # "EOF"
                            /\ outcome.lx.log[j].end > outcome.lx.log[j].start
                            /\ CursorAt(j + 1).start >= outcome.lx.log[j].end
             /\ Advances <= Len(input) + Splits
             /\ Splits <= Cardinality({i \in DOMAIN input : input[i].k = "GreaterGreater"})
    /\ CutShort
          => IF Len(input) >= 2 /\ input[Len(input) - 1].k = "SpecReturn"
                /\ input[Len(input)].k = "LParen"
             THEN IsPanic(outcome)
             ELSE /\ ReturnedInvalidToken
                  /\ \/ outcome.err = InvalidToken(TextLen(input))
                     \/ \E i \in DOMAIN input :
                           /\ i >= Len(input) - 2
                           /\ outcome.err = InvalidToken(AtomStart(input, i))
    /\ \A name \in DOMAIN LoopTexts :
          (entry = name /\ input \in LoopTexts[name])
              => outcome.ok /\ Advances <= Len(input) /\ peek(outcome.lx) = "EOF"

\* module M { f() requires p(a, b.c.d) ensures RET(1) == a { } } cut short
\* after `p(a,`: the loop over the arguments of the spec call fails at the
\* end of the input
C28_Witness ==
    /\ entry = "parse_module_string"
    /\ input = SubSeq(SpecLoopsModuleText, 1, 11)
    /\ input[11].k = "Comma"
    /\ outcome.err = InvalidToken(TextLen(input))
    /\ peek(outcome.lx) = "EOF"
    /\ Advances = 11

\* the lexemes of a text that belong to a spec clause: from `requires`,
\* `ensures`, `aborts_if` or `succeeds_if` to the lexeme before the `{` or
\* `;` of the function, from `invariant` to the lexeme before the `,` or `}`
\* that ends it, and from `synthetic` to its `;`
RECURSIVE ClauseAtoms(_, _, _)
ClauseAtoms(text, i, mode) ==
    IF i > Len(text) THEN {}
    ELSE LET k == text[i].k
             here == CASE k \in SpecKeywords -> "function"
                       [] k = "Synthetic" -> "synthetic"
                       [] k = "Invariant" -> "invariant"
                       [] mode = "function" /\ k \in {"LBrace", "Semicolon"} -> "none"
                       [] mode = "invariant" /\ k \in {"Comma", "RBrace"} -> "none"
                       [] OTHER -> mode
             next == IF here = "synthetic" /\ k = "Semicolon" THEN "none" ELSE here
         IN (IF here # "none" THEN {i} ELSE {}) \cup ClauseAtoms(text, i + 1, next)

\* the lexeme the cursor was on at the lexer operation j
AtomLeft(j) == AtomAfter(input, outcome.lx.log[j].start)

ModuleEntries ==
    {"parse_module_string", "parse_program_string", "parse_script_or_module_string"}

\* C29: every advance that leaves a lexeme of a spec clause, the keyword
\* first and the last lexeme of the clause last, is made with spec_mode true,
\* and every other advance with spec_mode false.  So the keyword was lexed
\* with spec_mode false and the token after the clause with spec_mode true:
\* in module M { synthetic y: u64; f<T>() { } } the `f<` after the clause is
\* lexed as the name f, and the parse fails at the `<`.
C29_SpecModeDuringClause ==
    /\ entry \in ModuleEntries
          => \A j \in OpsOf("advance") :
                j > 1 => outcome.lx.log[j].spec_mode
                            = (AtomLeft(j) \in ClauseAtoms(input, 1, "none"))
    /\ (entry = "parse_module_string" /\ input = GenericFunText(TRUE))
          => /\ outcome.err = InvalidToken(AtomStart(input, 10))
             /\ input[10].k = "Less"
             /\ peek(outcome.lx) = "Less"
    /\ (entry = "parse_module_string" /\ input = GenericFunText(FALSE))
          => outcome.ok /\ Consumed("NameBeginTyValue")

\* module M { f() requires p(a, b.c.d) ensures RET(1) == a { } }: the
\* advances from `requires` to the last `a` were made with spec_mode true,
\* the others with spec_mode false
C29_Witness ==
    /\ entry = "parse_module_string"
    /\ input = SpecLoopsModuleText
    /\ outcome.ok
    /\ ClauseAtoms(input, 1, "none") = 7..24
    /\ \A j \in OpsOf("advance") :
          j > 1 => outcome.lx.log[j].spec_mode = (AtomLeft(j) \in 7..24)
    /\ \E j \in OpsOf("advance") :
          outcome.lx.log[j].spec_mode /\ CursorAt(j + 1).start = AtomStart(input, 25)

\* the index a bracketed RET argument holds, when it is a U64Value token
\* with a decimal text that fits u8
RetIndex(arg) ==
    IF Len(arg) = 3 /\ arg[2].k = "U64Value" THEN from_str(arg[2].s, U8Max)
    ELSE [ok |-> FALSE, v |-> ""]

RetOperand(i) == <<"StorageLocation", <<"Ret", i>>>>

\* C30 (as stated): `RET` alone gives Ret(0) and `RET ( n )` gives Ret(n); when
\* the token after `RET (` is not a U64Value token holding a decimal number
\* that fits u8, the parse returns InvalidToken at that token, with no fatal
\* abort.
C30_RetIndex ==
    entry = "parse_module_string"
       => \A arg \in RetArgs :
             input = RetText(arg)
                => IF arg = <<>>
                   THEN outcome.ok /\ FirstCondition[2][2] = RetOperand("0")
                   ELSE IF RetIndex(arg).ok
                   THEN outcome.ok /\ FirstCondition[2][2] = RetOperand(RetIndex(arg).v)
                   ELSE /\ ReturnedInvalidToken
                        /\ outcome.err = InvalidToken(AtomStart(input, 10))

\* module M { f() ensures RET ( a ) == a { } }: the text of the token after
\* `RET (` is converted before its kind is checked, and the conversion of `a`
\* aborts the parse; the cursor is still on that token
C30_RetIndexPanics ==
    /\ entry = "parse_module_string"
    /\ input = RetText(<<P("LParen"), N("a"), P("RParen")>>)
    /\ IsPanic(outcome)
    /\ outcome.err = Panic("unwrap: u8::from_str")
    /\ CursorOn(10)
    /\ peek(outcome.lx) = "NameValue"

\* what the code does: Ret(0), Ret(n), and a fatal abort on every other token
\* after `RET (`
C30_RetIndexOrPanic ==
    entry = "parse_module_string"
       => \A arg \in RetArgs :
             input = RetText(arg)
                => IF arg = <<>>
                   THEN outcome.ok /\ FirstCondition[2][2] = RetOperand("0")
                   ELSE IF RetIndex(arg).ok
                   THEN outcome.ok /\ FirstCondition[2][2] = RetOperand(RetIndex(arg).v)
                   ELSE IsPanic(outcome) /\ CursorOn(10)

====
